---- MODULE Spec2Model ----
(***************************************************************************)
(* Model of the content manager's persistent state store                   *)
(* (Utils::RocksDBWrapper, rocksDBWrapper.hpp) and of the components that  *)
(* use it.  The store is an ordered map from byte-string keys to           *)
(* byte-string values; the wrapper validates its arguments, calls the      *)
(* engine (rocksdb::DB) and turns the engine's status into a return value  *)
(* or an exception.                                                        *)
(*                                                                         *)
(* The engine is modelled as a healthy in-process RocksDB: Put, Delete and *)
(* Write report ok, Get reports ok or NotFound.  The wrapper's branches    *)
(* for the other statuses are kept, so that a status other than ok is      *)
(* turned into std::runtime_error exactly as the code does.                *)
(***************************************************************************)
EXTENDS Integers, Sequences, FiniteSets, TLC

\* ------------------------------------------------------------------ bounds
\* Most entries the store holds at once (put of a new key is not issued beyond).
MaxEntries == 2

\* The byte values keys are made of, the keys the calls are made with (the
\* empty key among them) and the values stored (the empty value among them).
Bytes == {0, 1}
KeyLengths == {0, 1, 2}
Keys == UNION {[1..n -> Bytes] : n \in KeyLengths}
Values == {<<>>, <<0>>, <<1>>}

\* ------------------------------------------------------------------ state
VARIABLES
    db,     \* m_db: the entries of the store, in the engine's key order
    pc,     \* position of the thread inside deleteAll: "idle" or "write"
    batch,  \* deleteAll's rocksdb::WriteBatch: the keys it will delete
    last,   \* the last call: operation, arguments, outcome, store before it
    fs,     \* the filesystem: the directories and the initialized stores
    opened, \* the last construction of a RocksDBWrapper and its outcome
    made,   \* the last call of FactoryDownloader::create and its outcome
    remote,             \* the content served at the configured url
    configData,         \* spUpdaterBaseContext->configData
    downloadedFileHash, \* spUpdaterBaseContext->downloadedFileHash
    files,              \* the files under the downloads and contents folders
    context,            \* context.data: paths and stageStatus of the run
    rpc,                \* position of the run inside FileDownloader::handleRequest
    run,                \* the run under way: where it started, what happened
    prev,               \* how the previous run of this source ended
    m_providers,        \* ContentModuleFacade::m_providers: name -> provider
    m_mutex,            \* ContentModuleFacade::m_mutex: who holds the lock
    phase,              \* the facade: "up", "stopping" or "stopped"
    called,             \* the last call on the facade and whether it failed
    resolved,           \* the last ExecutionContext::handleRequest and its outcome
    iters,              \* the RocksDBIterators the callers hold, by holder
    gs_logFunctions,    \* dbsync: the log function registered for each handle
    api,                \* dbsync: the last call of a C entry point and its outcome
    cti                 \* the CTI-API downloader, its feed and its persisted offset

storeVars == <<db, pc, batch, last>>

openVars == <<fs, opened>>

factoryVars == <<made>>

downloaderVars ==
    <<remote, configData, downloadedFileHash, files, context, rpc, run, prev>>

facadeVars == <<m_providers, m_mutex, phase, called>>

contextVars == <<fs, resolved>>

iterVars == <<iters>>

\* The state of the components that follow the execution context.
dbsyncVars == <<gs_logFunctions, api>>

ctiVars == <<cti>>

laterVars == <<iterVars, dbsyncVars, ctiVars>>

vars ==
    <<storeVars, openVars, factoryVars, downloaderVars, facadeVars, resolved,
      laterVars>>

\* What the calls on an open store leave alone.
otherThanStore ==
    <<laterVars, resolved, openVars, factoryVars, downloaderVars, facadeVars>>

\* What the construction of a store leaves alone.
otherThanOpen ==
    <<laterVars, resolved, storeVars, factoryVars, downloaderVars, facadeVars>>

\* What the downloader factory leaves alone.
otherThanFactory ==
    <<laterVars, resolved, storeVars, openVars, downloaderVars, facadeVars>>

\* What a run of the file downloader leaves alone.
otherThanDownloader ==
    <<laterVars, resolved, storeVars, openVars, factoryVars, facadeVars>>

\* What the facade and the providers' schedulers leave alone.
otherThanFacade ==
    <<storeVars, openVars, factoryVars, downloaderVars, resolved, laterVars>>

\* What the execution context leaves alone.
otherThanContext ==
    <<storeVars, opened, factoryVars, downloaderVars, facadeVars, laterVars>>

\* ---------------------------------------------------- byte string helpers
\* rocksdb::BytewiseComparator: memcmp over the common length, then the
\* shorter string first.
BytewiseLess(a, b) ==
    \/ \E i \in 1..Len(a) :
          /\ i <= Len(b)
          /\ a[i] < b[i]
          /\ \A j \in 1..(i - 1) : a[j] = b[j]
    \/ /\ Len(a) < Len(b)
       /\ \A j \in 1..Len(a) : a[j] = b[j]

\* rocksdb::Slice::starts_with
StartsWith(key, prefix) ==
    /\ Len(prefix) <= Len(key)
    /\ \A j \in 1..Len(prefix) : key[j] = prefix[j]

Entry(k, v) == [key |-> k, value |-> v]

KeysOf(d) == {d[i].key : i \in 1..Len(d)}

\* ------------------------------------------------- the engine, rocksdb::DB
\* The calls the wrapper makes on m_db.  d is the content of the store, a
\* sequence of entries in ascending key order with one entry per key.

\* m_db->Put(WriteOptions(), key, value): insert, or replace the entry of key.
DB_Put(d, k, v) ==
    [status |-> "OK",
     db |-> SelectSeq(d, LAMBDA e : BytewiseLess(e.key, k))
            \o <<Entry(k, v)>>
            \o SelectSeq(d, LAMBDA e : BytewiseLess(k, e.key))]

\* m_db->Get(ReadOptions(), key, &value)
DB_Get(d, k) ==
    IF \E i \in 1..Len(d) : d[i].key = k
    THEN [status |-> "OK",
          value |-> d[CHOOSE i \in 1..Len(d) : d[i].key = k].value]
    ELSE [status |-> "NotFound", value |-> <<>>]

\* m_db->Delete(WriteOptions(), key): ok whether or not the key is present.
DB_Delete(d, k) ==
    [status |-> "OK", db |-> SelectSeq(d, LAMBDA e : e.key # k)]

\* m_db->Write(WriteOptions(), &batch) for a batch of Delete records: the
\* engine applies the whole batch in one atomic write.
DB_Write(d, b) ==
    [status |-> "OK",
     db |-> SelectSeq(d, LAMBDA e : \A j \in 1..Len(b) : b[j] # e.key)]

\* rocksdb::Iterator over the content d it was created on; a position is an
\* index into d, 0 when the iterator is not Valid().
ItValid(d, i) == i \in 1..Len(d)

ItSeekToFirst(d) == IF Len(d) > 0 THEN 1 ELSE 0

ItSeekToLast(d) == Len(d)

\* Seek(target): the first entry whose key is at or past target.
ItSeek(d, target) ==
    LET at == {i \in 1..Len(d) : ~BytewiseLess(d[i].key, target)}
    IN  IF at = {} THEN 0 ELSE CHOOSE i \in at : \A j \in at : i <= j

ItNext(d, i) == IF i < Len(d) THEN i + 1 ELSE 0

\* ------------------------------------------------------ the wrapper's calls
\* What a call of the wrapper does: the exception it throws ("none" when it
\* returns), the value it returns, the entries it hands back and the content
\* of the store afterwards.
Throw(what, d) == [thrown |-> what, ret |-> FALSE, out |-> <<>>, db |-> d]

Return(r, o, d) == [thrown |-> "none", ret |-> r, out |-> o, db |-> d]

\* put that returns without writing when the value is empty.
put_SkipsEmptyValue(d, key, value) ==
    IF key = <<>>
    THEN Throw("invalid_argument", d)
    ELSE IF value = <<>>
         THEN Return(TRUE, <<>>, d)
         ELSE Return(TRUE, <<>>, DB_Put(d, key, value).db)

\* put that leaves the entry of a key the store already holds as it is.
put_KeepsExisting(d, key, value) ==
    IF key = <<>>
    THEN Throw("invalid_argument", d)
    ELSE IF DB_Get(d, key).status = "OK"
         THEN Return(TRUE, <<>>, d)
         ELSE Return(TRUE, <<>>, DB_Put(d, key, value).db)

\* RocksDBWrapper::put
put(d, key, value) ==
    IF key = <<>>
    THEN Throw("invalid_argument", d)
    ELSE LET s == DB_Put(d, key, value)
         IN  IF s.status # "OK"
             THEN Throw("runtime_error", d)
             ELSE Return(TRUE, <<>>, s.db)

\* get without the check of the key.
get_NoKeyCheck(d, key) ==
    LET s == DB_Get(d, key)
    IN  IF s.status = "NotFound"
        THEN Return(FALSE, <<>>, d)
        ELSE Return(TRUE, <<Entry(key, s.value)>>, d)

\* RocksDBWrapper::get(key, std::string&): true and the value, or false.
get(d, key) ==
    IF key = <<>>
    THEN Throw("invalid_argument", d)
    ELSE LET s == DB_Get(d, key)
         IN  IF s.status = "NotFound"
             THEN Return(FALSE, <<>>, d)
             ELSE IF s.status # "OK"
                  THEN Throw("runtime_error", d)
                  ELSE Return(TRUE, <<Entry(key, s.value)>>, d)

\* delete_ that checks the key and never calls the engine.
delete_Nothing(d, key) ==
    IF key = <<>>
    THEN Throw("invalid_argument", d)
    ELSE Return(TRUE, <<>>, d)

\* delete_ that treats a key the store does not hold as an error.
delete_ThrowsIfMissing(d, key) ==
    IF key = <<>>
    THEN Throw("invalid_argument", d)
    ELSE IF DB_Get(d, key).status = "NotFound"
         THEN Throw("runtime_error", d)
         ELSE Return(TRUE, <<>>, DB_Delete(d, key).db)

\* delete_ that removes every key that starts with the key.
delete_RemovesPrefix(d, key) ==
    IF key = <<>>
    THEN Throw("invalid_argument", d)
    ELSE Return(TRUE, <<>>,
                SelectSeq(d, LAMBDA e : ~StartsWith(e.key, key)))

\* RocksDBWrapper::delete_
delete_(d, key) ==
    IF key = <<>>
    THEN Throw("invalid_argument", d)
    ELSE LET s == DB_Delete(d, key)
         IN  IF s.status # "OK"
             THEN Throw("runtime_error", d)
             ELSE Return(TRUE, <<>>, s.db)

\* getLastKeyValue that hands back an empty pair when the iterator is not valid.
getLastKeyValue_NoThrow(d, read) ==
    LET it == ItSeekToLast(d)
    IN  IF ItValid(d, it)
        THEN Return(TRUE, <<Entry(d[it].key, read)>>, d)
        ELSE Return(TRUE, <<Entry(<<>>, <<>>)>>, d)

\* RocksDBWrapper::getLastKeyValue.  The key is copied out of the iterator
\* (ToString); the value is returned as a rocksdb::Slice that still points
\* into the iterator, which the function destroys on return.  What the
\* caller reads through that slice is read: any byte string the build may
\* find there, the stored value among them.
getLastKeyValue(d, read) ==
    LET it == ItSeekToLast(d)
    IN  IF ItValid(d, it)
        THEN Return(TRUE, <<Entry(d[it].key, read)>>, d)
        ELSE Throw("runtime_error", d)

\* deleteAll whose loop stops after the first key.
deleteAllBatch_FirstOnly(d, i) ==
    IF ItValid(d, i) THEN <<d[i].key>> ELSE <<>>

\* RocksDBWrapper::deleteAll, its loop: one Delete record per key the
\* iterator visits, from the first entry to the last.
RECURSIVE deleteAllBatch(_, _)
deleteAllBatch(d, i) ==
    IF ItValid(d, i)
    THEN <<d[i].key>> \o deleteAllBatch(d, ItNext(d, i))
    ELSE <<>>

\* deleteAll emptying the store, whatever the batch holds.
deleteAllWrite_Clears(d, b) == Return(TRUE, <<>>, <<>>)

\* RocksDBWrapper::deleteAll, its write of the batch.
deleteAllWrite(d, b) ==
    LET s == DB_Write(d, b)
    IN  IF s.status # "OK"
        THEN Throw("runtime_error", d)
        ELSE Return(TRUE, <<>>, s.db)

\* seek that hands over the engine's iterator at the first entry.
seek_FromFirst(d, key) == [it |-> ItSeekToFirst(d), prefix |-> key]

\* RocksDBIterator(it, prefix): seek positions the engine's iterator at the
\* first key at or past the prefix.
seek(d, key) == [it |-> ItSeek(d, key), prefix |-> key]

\* begin that hands over the engine's iterator without positioning it.
begin_NotPositioned(d) == [it |-> 0, prefix |-> <<>>]

\* RocksDBWrapper::begin: RocksDBIterator(it), an iterator over the whole
\* store from its first entry; end() is the iterator every loop stops at.
begin(d) == [it |-> ItSeekToFirst(d), prefix |-> <<>>]

\* An iterator that runs to the last entry of the store.
IteratorAtEnd_NoPrefix(d, r) == ~ItValid(d, r.it)

\* RocksDBIterator compared with end(): the iteration goes on while the
\* engine's iterator is valid and its key starts with the prefix.
IteratorAtEnd(d, r) ==
    \/ ~ItValid(d, r.it)
    \/ ~StartsWith(d[r.it].key, r.prefix)

\* for (const auto& [key, value] : iterator): the entries the loop visits.
RECURSIVE RangeFor(_, _)
RangeFor(d, r) ==
    IF IteratorAtEnd(d, r)
    THEN <<>>
    ELSE <<d[r.it]>> \o RangeFor(d, [r EXCEPT !.it = ItNext(d, r.it)])

\* ----------------------------------------------------------------- actions
Call(op, k, v, r) ==
    [op |-> op, key |-> k, value |-> v, thrown |-> r.thrown, ret |-> r.ret,
     out |-> r.out, pre |-> db]

\* A store just opened and never written.
InitStore ==
    /\ db = <<>>
    /\ pc = "idle"
    /\ batch = <<>>
    /\ last = [op |-> "open", key |-> <<>>, value |-> <<>>, thrown |-> "none",
               ret |-> TRUE, out |-> <<>>, pre |-> <<>>]

\* An empty working directory; no store has been constructed.
InitOpen ==
    /\ fs = [dirs |-> {}, stores |-> {}]
    /\ opened = [op |-> "none", path |-> <<>>, createIfMissing |-> TRUE,
                 thrown |-> "none", pre |-> [dirs |-> {}, stores |-> {}]]

\* A value of the configuration: a JSON string, a JSON value of another
\* type, or the mark of a key the configuration does not hold.
String(text) == [type |-> "string", text |-> text]

Number == [type |-> "number", text |-> ""]

Absent == [type |-> "absent", text |-> ""]

\* FactoryDownloader::create has not been called.
InitFactory ==
    made = [op |-> "none", thrown |-> "none", downloader |-> "none",
            config |-> [contentSource |-> Absent, url |-> Absent,
                        compressionType |-> Absent, contentFileName |-> Absent,
                        outputFolder |-> Absent]]

\* The contents the url may serve.
Contents == {"X", "Y", "Z"}

\* The artifact's location: folder and file name.
FilePaths == {<<"downloads", "y.json">>, <<"contents", "y.json">>}

NoFile == "none"

\* No run yet.
NoRun ==
    [start |-> [hash |-> "", paths |-> <<>>, stageStatus |-> <<>>],
     transport |-> "", fetched |-> "", caught |-> FALSE,
     nextCalled |-> FALSE, result |-> "none", written |-> FALSE,
     quiet |-> FALSE, same |-> FALSE]

NoPrev == [result |-> "none", appended |-> FALSE]

\* A source configured for a raw file, nothing downloaded yet: the hash of
\* the last download is the empty string.
InitDownloader ==
    /\ remote = "X"
    /\ configData = [url |-> String("http://x/y.json"),
                     compressionType |-> String("raw"),
                     contentFileName |-> String("y.json")]
    /\ downloadedFileHash = ""
    /\ files = [p \in FilePaths |-> NoFile]
    /\ context = [paths |-> <<>>, stageStatus |-> <<>>]
    /\ rpc = "idle"
    /\ run = NoRun
    /\ prev = NoPrev

\* The facade is started, no provider is registered, nobody holds the lock.
InitFacade ==
    /\ m_providers = <<>>
    /\ m_mutex = "free"
    /\ phase = "up"
    /\ called = [op |-> "none", name |-> "", failed |-> FALSE]

\* The mark of a path option the configuration does not hold.
NoOption == [type |-> "absent", text |-> <<>>]

\* ExecutionContext::handleRequest has not been called.
NoResolve ==
    [op |-> "none", outputFolderOption |-> NoOption, databasePath |-> NoOption,
     thrown |-> "none", outputFolder |-> <<>>, storeExisted |-> FALSE,
     folderExisted |-> FALSE]

InitContext == resolved = NoResolve

\* No caller holds an iterator.
IteratorIds == {1, 2}

InitIterators == iters = [i \in IteratorIds |-> <<>>]

\* DBSYNC_HANDLE: the handles the implementation hands out; 0 is nullptr.
Handles == {1, 2}

nullptr == 0

\* No handle has a log function; no entry point has been called.
NoApiCall ==
    [op |-> "none", handle |-> nullptr, args |-> <<>>, log_function |-> FALSE,
     outcome |-> [kind |-> "ok", id |-> 0, handle |-> nullptr],
     implCalled |-> FALSE, ret |-> 0, retHandle |-> nullptr,
     logged |-> "", written |-> FALSE, escaped |-> FALSE,
     pre |-> [h \in Handles |-> FALSE]]

InitDbsync ==
    /\ gs_logFunctions = [h \in Handles |-> FALSE]
    /\ api = NoApiCall

\* The feed holds at most FeedSize records, a page at most PageSize, and
\* the process crashes at most MaxCrashes times.
FeedSize == 3
PageSize == 2
MaxCrashes == 2

NoPage == {}

\* An empty feed, the offset 0 in the store, nothing fetched.
InitCti ==
    cti = [feed |-> 0, offset |-> 0, pc |-> "idle", page |-> NoPage,
           lastPage |-> NoPage, fetched |-> {}, delivered |-> {},
           crashes |-> 0, op |-> "none"]

Init ==
    /\ InitCti
    /\ InitDbsync
    /\ InitIterators
    /\ InitContext
    /\ InitStore
    /\ InitOpen
    /\ InitFactory
    /\ InitDownloader
    /\ InitFacade

Put(k, v) ==
    /\ pc = "idle"
    /\ k \in KeysOf(db) \/ Len(db) < MaxEntries \/ k = <<>>
    /\ LET r == put(db, k, v)
       IN  /\ db' = r.db
           /\ last' = Call("put", k, v, r)
    /\ UNCHANGED <<pc, batch, otherThanStore>>

Get(k) ==
    /\ pc = "idle"
    /\ LET r == get(db, k)
       IN  /\ db' = r.db
           /\ last' = Call("get", k, <<>>, r)
    /\ UNCHANGED <<pc, batch, otherThanStore>>

Delete(k) ==
    /\ pc = "idle"
    /\ LET r == delete_(db, k)
       IN  /\ db' = r.db
           /\ last' = Call("delete_", k, <<>>, r)
    /\ UNCHANGED <<pc, batch, otherThanStore>>

GetLastKeyValue(read) ==
    /\ pc = "idle"
    /\ LET r == getLastKeyValue(db, read)
       IN  /\ db' = r.db
           /\ last' = Call("getLastKeyValue", <<>>, <<>>, r)
    /\ UNCHANGED <<pc, batch, otherThanStore>>

\* deleteAll up to its call of Write: the batch is built, nothing is written.
DeleteAllScan ==
    /\ pc = "idle"
    /\ batch' = deleteAllBatch(db, ItSeekToFirst(db))
    /\ pc' = "write"
    /\ last' = [op |-> "deleteAll", key |-> <<>>, value |-> <<>>,
                thrown |-> "none", ret |-> FALSE, out |-> <<>>, pre |-> db]
    /\ UNCHANGED <<db, otherThanStore>>

\* deleteAll from its call of Write to its return.
DeleteAllWrite ==
    /\ pc = "write"
    /\ LET r == deleteAllWrite(db, batch)
       IN  /\ db' = r.db
           /\ last' = [last EXCEPT !.thrown = r.thrown, !.ret = r.ret]
    /\ pc' = "idle"
    /\ batch' = <<>>
    /\ UNCHANGED otherThanStore

\* for (... : db.seek(k)): the caller opens an iterator and runs it to the end.
Seek(k) ==
    /\ pc = "idle"
    /\ last' = Call("seek", k, <<>>, Return(TRUE, RangeFor(db, seek(db, k)), db))
    /\ UNCHANGED <<db, pc, batch, otherThanStore>>

\* for (... : db): the full scan, from begin() to end().
Begin ==
    /\ pc = "idle"
    /\ last' = Call("begin", <<>>, <<>>, Return(TRUE, RangeFor(db, begin(db)), db))
    /\ UNCHANGED <<db, pc, batch, otherThanStore>>

Next ==
    \/ \E k \in Keys, v \in Values : Put(k, v)
    \/ \E k \in Keys : Get(k)
    \/ \E k \in Keys : Delete(k)
    \/ \E read \in Values : GetLastKeyValue(read)
    \/ DeleteAllScan
    \/ DeleteAllWrite
    \/ \E k \in Keys : Seek(k)
    \/ Begin

Spec == Init /\ [][Next]_vars

TypeOK ==
    /\ pc \in {"idle", "write"}
    /\ \A i \in 1..Len(db) : db[i].key \in Keys \ {<<>>} /\ db[i].value \in Values
    /\ \A i \in 1..(Len(db) - 1) : BytewiseLess(db[i].key, db[i + 1].key)

\* ------------------------------------------------------------ properties
Found(k, v) == Return(TRUE, <<Entry(k, v)>>, db)

NotFound == Return(FALSE, <<>>, db)

\* The entries of d that carry key k.
EntriesOf(d, k) == {i \in 1..Len(d) : d[i].key = k}

\* C1: in the state a put(k, v) with a non-empty key k leaves, whatever calls
\* came before it, put has returned normally and get(k) reports found and
\* hands back exactly v; v may be the empty value.
C1_PutThenGet ==
    (last.op = "put" /\ last.key # <<>>)
        => /\ last.thrown = "none"
           /\ get(db, last.key) = Found(last.key, last.value)

\* The empty value is put over a different value, in a store that also holds
\* another key.
C1_Witness ==
    /\ last.op = "put" /\ last.key # <<>> /\ last.value = <<>>
    /\ last.thrown = "none"
    /\ get(last.pre, last.key).ret
    /\ get(last.pre, last.key).out # <<Entry(last.key, <<>>)>>
    /\ Len(db) > 1

\* C2: in the state a delete_(k) with a non-empty key k leaves, get(k) returns
\* false (NotFound): it neither finds a value nor throws.
C2_DeleteThenGet ==
    (last.op = "delete_" /\ last.key # <<>>)
        => /\ last.thrown = "none"
           /\ get(db, last.key) = NotFound

\* The deleted key was in the store, next to another key.
C2_Witness ==
    /\ last.op = "delete_" /\ last.key # <<>>
    /\ last.key \in KeysOf(last.pre)
    /\ Len(last.pre) > 1
    /\ ~get(db, last.key).ret

\* C3: put on a key the store already holds returns normally; afterwards
\* get(k) hands back the value of this most recent put, the store holds one
\* entry for k and as many entries as before.
C3_PutOverwrites ==
    (last.op = "put" /\ last.key # <<>> /\ last.key \in KeysOf(last.pre))
        => /\ last.thrown = "none"
           /\ get(db, last.key) = Found(last.key, last.value)
           /\ Cardinality(EntriesOf(db, last.key)) = 1
           /\ Len(db) = Len(last.pre)

\* The key held another value before the put.
C3_Witness ==
    /\ last.op = "put" /\ last.key \in KeysOf(last.pre)
    /\ get(last.pre, last.key).out # <<Entry(last.key, last.value)>>
    /\ get(db, last.key).out = <<Entry(last.key, last.value)>>
    /\ last.value # <<>>

\* C4: put, get and delete_ with the empty key throw std::invalid_argument
\* (they neither return false, which is NotFound, nor throw the
\* std::runtime_error of a storage failure) and leave the store as it was.
C4_EmptyKeyRejected ==
    (last.op \in {"put", "get", "delete_"} /\ last.key = <<>>)
        => /\ last.thrown = "invalid_argument"
           /\ db = last.pre

\* The empty key is given to get on a store that holds entries.
C4_Witness ==
    /\ last.op = "get" /\ last.key = <<>>
    /\ last.thrown = "invalid_argument"
    /\ Len(db) > 1

\* The entries of d whose key is at or past k, in the order of d.
AtOrPast(d, k) == SelectSeq(d, LAMBDA e : ~BytewiseLess(e.key, k))

Ascending(o) == \A i \in 1..(Len(o) - 1) : BytewiseLess(o[i].key, o[i + 1].key)

\* C5 as stated: seek(k) produces all the entries whose key is at or past k,
\* and only those, in ascending byte order of key.
C5_Original ==
    last.op = "seek" => last.out = AtOrPast(last.pre, last.key)

\* C5 as amended: seek(k) produces, in ascending byte order of key, the
\* entries whose key is at or past k up to the first one whose key does not
\* start with k: every entry produced has a key at or past k, and an entry at
\* or past k is left out exactly when it stands at or behind such a key.
C5_SeekUpToPrefixEnd ==
    last.op = "seek"
        => LET o == last.out
               a == AtOrPast(last.pre, last.key)
           IN  /\ Len(o) <= Len(a)
               /\ o = SubSeq(a, 1, Len(o))
               /\ Ascending(o)
               /\ \A i \in 1..Len(o) : StartsWith(o[i].key, last.key)
               /\ Len(o) < Len(a) => ~StartsWith(a[Len(o) + 1].key, last.key)

\* seek produces an entry and leaves out a later one, whose key is past k.
C5_Witness ==
    /\ last.op = "seek" /\ last.key # <<>>
    /\ Len(last.out) = 1
    /\ Len(AtOrPast(last.pre, last.key)) = 2

\* C6: the loop over seek(k) visits exactly the entries whose key starts with
\* k, in ascending key order and each once.  With 00 and 01 stored, seek(0)
\* visits both, seek(00) visits 00 and not 01, and seek(1) visits nothing.
C6_SeekVisitsPrefix ==
    last.op = "seek"
        => /\ \A i \in 1..Len(last.pre) :
                StartsWith(last.pre[i].key, last.key)
                    <=> (\E j \in 1..Len(last.out) : last.out[j] = last.pre[i])
           /\ \A j \in 1..Len(last.out) :
                \E i \in 1..Len(last.pre) : last.out[j] = last.pre[i]
           /\ Ascending(last.out)
           /\ KeysOf(last.pre) = {<<0, 0>>, <<0, 1>>}
                => /\ last.key = <<0>> => Len(last.out) = 2
                   /\ last.key = <<0, 0>>
                        => (Len(last.out) = 1 /\ last.out[1].key = <<0, 0>>)
                   /\ last.key = <<1>> => last.out = <<>>

\* seek(00) on a store that holds 00 and 01 visits the one entry 00.
C6_Witness ==
    /\ last.op = "seek" /\ last.key = <<0, 0>>
    /\ KeysOf(last.pre) = {<<0, 0>>, <<0, 1>>}
    /\ Len(last.out) = 1 /\ last.out[1].key = <<0, 0>>

\* C7 as stated: on a non-empty store getLastKeyValue returns the entry whose
\* key is the greatest key present, in byte order, with the value the store
\* holds for that key.
C7_GetLastReturnsMaxEntry ==
    (last.op = "getLastKeyValue" /\ last.pre # <<>>)
        => /\ last.thrown = "none"
           /\ Len(last.out) = 1
           /\ last.out[1].key \in KeysOf(last.pre)
           /\ \A k \in KeysOf(last.pre) :
                k = last.out[1].key \/ BytewiseLess(k, last.out[1].key)
           /\ get(last.pre, last.out[1].key).out = last.out

\* C8: on an empty store getLastKeyValue throws and get of a non-empty key
\* returns false, and neither changes the store; the same holds of every
\* state in which the store is empty, however it was emptied.
C8_EmptyStore ==
    /\ (last.op = "getLastKeyValue" /\ last.pre = <<>>)
            => (last.thrown = "runtime_error" /\ db = last.pre)
    /\ (last.op = "get" /\ last.key # <<>> /\ last.pre = <<>>)
            => (last.thrown = "none" /\ ~last.ret /\ db = last.pre)
    /\ db = <<>>
            => /\ \A v \in Values :
                    getLastKeyValue(db, v) = Throw("runtime_error", db)
               /\ \A k \in Keys \ {<<>>} : get(db, k) = NotFound

\* getLastKeyValue has been called on an empty store.
C8_Witness ==
    /\ last.op = "getLastKeyValue"
    /\ last.pre = <<>>
    /\ last.thrown = "runtime_error"
    /\ db = <<>>

\* C9: delete_ of a non-empty key the store does not hold returns normally
\* and leaves every entry as it was; so on the empty store.
C9_DeleteMissingKey ==
    (last.op = "delete_" /\ last.key # <<>> /\ last.key \notin KeysOf(last.pre))
        => /\ last.thrown = "none"
           /\ last.ret
           /\ db = last.pre

\* The key is missing from a store that holds other entries.
C9_Witness ==
    /\ last.op = "delete_" /\ last.key # <<>>
    /\ last.key \notin KeysOf(last.pre)
    /\ Len(last.pre) > 1
    /\ db = last.pre

\* C10: deleteAll removes the entries in one step.  While it is under way
\* nothing is removed; once it has returned, get of every key returns false
\* and the full scan is empty; no state shows some of the entries present at
\* its start removed and others still there; on an empty store it returns
\* normally and changes nothing.
C10_DeleteAllAtomic ==
    /\ pc = "write" => (last.op = "deleteAll" /\ db = last.pre)
    /\ last.op = "deleteAll"
            => \/ db = last.pre
               \/ KeysOf(db) \cap KeysOf(last.pre) = {}
    /\ (last.op = "deleteAll" /\ pc = "idle")
            => /\ last.thrown = "none"
               /\ last.ret
               /\ \A k \in Keys \ {<<>>} : get(db, k) = NotFound
               /\ RangeFor(db, seek(db, <<>>)) = <<>>
               /\ last.pre = <<>> => db = last.pre

\* deleteAll has returned on a store that held several entries.
C10_Witness ==
    /\ last.op = "deleteAll" /\ pc = "idle"
    /\ Len(last.pre) > 1
    /\ db = <<>>

\* C11: the full scan (the loop from begin() to end()) visits every entry of
\* the store once, in ascending byte order of key, each with the value the
\* store holds for its key, and ends after the last entry.
C11_FullScan ==
    last.op = "begin"
        => /\ Len(last.out) = Len(last.pre)
           /\ \A i \in 1..Len(last.pre) :
                Cardinality({j \in 1..Len(last.out) :
                                last.out[j].key = last.pre[i].key}) = 1
           /\ \A j \in 1..Len(last.out) :
                get(last.pre, last.out[j].key).out = <<last.out[j]>>
           /\ Ascending(last.out)
           /\ db = last.pre

\* The scan has run over a store that holds several entries.
C11_Witness ==
    /\ last.op = "begin"
    /\ Len(last.pre) > 1
    /\ Len(last.out) = Len(last.pre)

\* ------------------------------------------- construction of the wrapper
\* The paths a store is opened at: one or two components under the working
\* directory.
PathNames == {"a", "b"}
PathDepths == {1, 2}
Paths == UNION {[1..n -> PathNames] : n \in PathDepths}

\* The path and the directories above it.
UpTo(path) == {SubSeq(path, 1, n) : n \in 1..Len(path)}

\* std::filesystem::create_directories(dbPath)
create_directories(dirs, path) == dirs \cup UpTo(path)

\* rocksdb::DB::Open(options, dbPath, &dbRawPtr): opens the store at dbPath;
\* creates it, and its own directory but not the directories above, when
\* there is none and options.create_if_missing is set.
DB_Open(f, path, create_if_missing) ==
    IF path \in f.stores
    THEN [status |-> "OK", fs |-> f]
    ELSE IF ~create_if_missing
         THEN [status |-> "InvalidArgument", fs |-> f]
         ELSE IF UpTo(path) \ {path} \subseteq f.dirs
              THEN [status |-> "OK",
                    fs |-> [dirs |-> f.dirs \cup {path},
                            stores |-> f.stores \cup {path}]]
              ELSE [status |-> "IOError", fs |-> f]

\* The constructor without its call of create_directories.
RocksDBWrapper_NoCreateDirectories(f, dbPath, createIfMissing) ==
    LET s == DB_Open(f, dbPath, createIfMissing)
    IN  IF s.status # "OK"
        THEN [thrown |-> "runtime_error", fs |-> f]
        ELSE [thrown |-> "none", fs |-> s.fs]

\* The constructor creating the directories only when createIfMissing is set.
RocksDBWrapper_CreatesDirectoriesIfMissing(f, dbPath, createIfMissing) ==
    LET d == IF createIfMissing
             THEN [f EXCEPT !.dirs = create_directories(f.dirs, dbPath)]
             ELSE f
        s == DB_Open(d, dbPath, createIfMissing)
    IN  IF s.status # "OK"
        THEN [thrown |-> "runtime_error", fs |-> d]
        ELSE [thrown |-> "none", fs |-> s.fs]

\* RocksDBWrapper::RocksDBWrapper(dbPath, createIfMissing)
RocksDBWrapper(f, dbPath, createIfMissing) ==
    LET d == [f EXCEPT !.dirs = create_directories(f.dirs, dbPath)]
        s == DB_Open(d, dbPath, createIfMissing)
    IN  IF s.status # "OK"
        THEN [thrown |-> "runtime_error", fs |-> d]
        ELSE [thrown |-> "none", fs |-> s.fs]

\* A wrapper is constructed at path; it is destroyed again before the next.
Open(path, createIfMissing) ==
    /\ LET r == RocksDBWrapper(fs, path, createIfMissing)
       IN  /\ fs' = r.fs
           /\ opened' = [op |-> "open", path |-> path,
                         createIfMissing |-> createIfMissing,
                         thrown |-> r.thrown, pre |-> fs]
    /\ UNCHANGED otherThanOpen

\* std::filesystem::remove_all(path): the directory and all below it go.
RemoveAll(path) ==
    /\ path \in fs.dirs
    /\ fs' = [dirs |-> {p \in fs.dirs : path \notin UpTo(p)},
              stores |-> {p \in fs.stores : path \notin UpTo(p)}]
    /\ opened' = [op |-> "remove_all", path |-> path, createIfMissing |-> FALSE,
                  thrown |-> "none", pre |-> fs]
    /\ UNCHANGED otherThanOpen

NextOpen ==
    \/ \E path \in Paths, createIfMissing \in BOOLEAN : Open(path, createIfMissing)
    \/ \E path \in Paths : RemoveAll(path)

SpecOpen == Init /\ [][NextOpen]_vars

\* C12: constructing the wrapper with createIfMissing = false at a path that
\* holds no store throws and leaves no store there; constructing it with
\* createIfMissing = true returns normally, with the store and every
\* directory above it in place, also when those directories were missing.
C12_Open ==
    opened.op = "open"
        => /\ (~opened.createIfMissing /\ opened.path \notin opened.pre.stores)
                => /\ opened.thrown = "runtime_error"
                   /\ opened.path \notin fs.stores
           /\ opened.createIfMissing
                => /\ opened.thrown = "none"
                   /\ opened.path \in fs.stores
                   /\ UpTo(opened.path) \subseteq fs.dirs

\* A store has been created two directories deep where neither existed.
C12_Witness ==
    /\ opened.op = "open" /\ opened.createIfMissing
    /\ Len(opened.path) = 2
    /\ UpTo(opened.path) \cap opened.pre.dirs = {}
    /\ opened.thrown = "none"
    /\ opened.path \in fs.stores

\* ---------------------------------------------------- downloader factory
\* The configurations create is called with: contentSource is one of the four
\* kinds, another string (the empty one, one in another case), a value that
\* is no string, or missing; the other options vary independently.
ContentSources ==
    {String(t) : t \in {"api", "cti-api", "file", "offline", "", "FILE", "ftp"}}
        \cup {Number, Absent}

Configs ==
    [contentSource : ContentSources,
     url : {String("http://x/y.json"), Absent},
     compressionType : {String("raw"), String("gzip")},
     contentFileName : {String("y.json"), String("y.gz")},
     outputFolder : {String("/tmp/out"), String(""), Absent}]

Created(downloader) == [thrown |-> "none", downloader |-> downloader]

Failed(what) == [thrown |-> what, downloader |-> "none"]

\* create with the offline branch returning the downloader of the branch above.
create_OfflineAsFile(config) ==
    LET downloaderType == config.contentSource
    IN  IF downloaderType.type = "absent" THEN Failed("out_of_range")
        ELSE IF downloaderType.type # "string" THEN Failed("type_error")
        ELSE IF downloaderType.text = "api" THEN Created("APIDownloader")
        ELSE IF downloaderType.text = "cti-api" THEN Created("CtiApiDownloader")
        ELSE IF downloaderType.text = "file" THEN Created("FileDownloader")
        ELSE IF downloaderType.text = "offline" THEN Created("FileDownloader")
        ELSE Failed("invalid_argument")

\* create that falls back on the offline downloader for an unknown type.
create_DefaultsToOffline(config) ==
    LET downloaderType == config.contentSource
    IN  IF downloaderType.type = "absent" THEN Failed("out_of_range")
        ELSE IF downloaderType.type # "string" THEN Failed("type_error")
        ELSE IF downloaderType.text = "api" THEN Created("APIDownloader")
        ELSE IF downloaderType.text = "cti-api" THEN Created("CtiApiDownloader")
        ELSE IF downloaderType.text = "file" THEN Created("FileDownloader")
        ELSE Created("OfflineDownloader")

\* FactoryDownloader::create.  config.at("contentSource") throws
\* nlohmann's out_of_range when the key is missing and get<std::string>()
\* its type_error when the value is no string.
create(config) ==
    LET downloaderType == config.contentSource
    IN  IF downloaderType.type = "absent" THEN Failed("out_of_range")
        ELSE IF downloaderType.type # "string" THEN Failed("type_error")
        ELSE IF downloaderType.text = "api" THEN Created("APIDownloader")
        ELSE IF downloaderType.text = "cti-api" THEN Created("CtiApiDownloader")
        ELSE IF downloaderType.text = "file" THEN Created("FileDownloader")
        ELSE IF downloaderType.text = "offline" THEN Created("OfflineDownloader")
        ELSE Failed("invalid_argument")

Create(config) ==
    /\ LET r == create(config)
       IN  made' = [op |-> "create", thrown |-> r.thrown,
                    downloader |-> r.downloader, config |-> config]
    /\ UNCHANGED otherThanFactory

NextFactory == \E config \in Configs : Create(config)

SpecFactory == Init /\ [][NextFactory]_vars

\* The downloader of each kind of content source.
DownloaderOf(kind) ==
    CASE kind = "api" -> "APIDownloader"
      [] kind = "cti-api" -> "CtiApiDownloader"
      [] kind = "file" -> "FileDownloader"
      [] kind = "offline" -> "OfflineDownloader"

Recognized == {String(t) : t \in {"api", "cti-api", "file", "offline"}}

\* C13: for a configuration whose contentSource is api, cti-api, file or
\* offline, create returns the downloader of that kind, and it returns the
\* same for every configuration with that contentSource, whatever the other
\* options are.
C13_CreateMatchesContentSource ==
    (made.op = "create" /\ made.config.contentSource \in Recognized)
        => /\ made.thrown = "none"
           /\ made.downloader = DownloaderOf(made.config.contentSource.text)
           /\ \A c \in Configs :
                c.contentSource = made.config.contentSource
                    => create(c) = Created(made.downloader)

\* The offline downloader has been created from a configuration without url.
C13_Witness ==
    /\ made.op = "create"
    /\ made.config.contentSource = String("offline")
    /\ made.config.url = Absent
    /\ made.downloader = "OfflineDownloader"

\* C14: for a contentSource that is none of api, cti-api, file and offline,
\* create throws and returns no downloader; when the value is a string, what
\* it throws is std::invalid_argument.
C14_CreateRejectsUnknown ==
    (made.op = "create" /\ made.config.contentSource \notin Recognized)
        => /\ made.thrown # "none"
           /\ made.downloader = "none"
           /\ made.config.contentSource.type = "string"
                => made.thrown = "invalid_argument"

\* create has been called with a known kind written in another case.
C14_Witness ==
    /\ made.op = "create"
    /\ made.config.contentSource = String("FILE")
    /\ made.thrown = "invalid_argument"
    /\ made.downloader = "none"

\* ------------------------------------------------------------------------
\* FileDownloader: one link of the chain, run once per cycle.

\* Utils::HashData: the digest of a file's bytes. Two of the contents share
\* a digest.
HashData(content) ==
    CASE content = "X" -> 10
      [] content = "Y" -> 171
      [] content = "Z" -> 10

\* Utils::asciiToHex: the digest written in hexadecimal.
asciiToHex(digest) ==
    CASE digest = 10 -> "0a"
      [] digest = 171 -> "ab"

\* The configurations of a file source: the url may be missing, the file
\* may be raw or compressed.
FileConfigs ==
    [url : {String("http://x/y.json"), Absent},
     compressionType : {String("raw"), String("gzip"), String("xz")},
     contentFileName : {String("y.json")}]

\* What the transport may do: write the file, report an error, or return
\* leaving no file that can be opened.
Transports == {"ok", "error", "unreadable"}

\* What the rest of the chain may do: nothing (no next handler), succeed, or
\* throw.
NextOutcomes == {"none", "ok", "throw"}

\* HTTPRequest::download(url, outputFilePath, onError).
HTTPRequest_download(disk, outputFilePath, served, transport) ==
    CASE transport = "ok" ->
            [error |-> FALSE, files |-> [disk EXCEPT ![outputFilePath] = served]]
      [] transport = "error" ->
            [error |-> TRUE, files |-> disk]
      [] transport = "unreadable" ->
            [error |-> FALSE, files |-> [disk EXCEPT ![outputFilePath] = NoFile]]

\* FileDownloader::pushStageStatus(contextData, status).
pushStageStatus_Overwrites(stageStatus, status) ==
    <<[stage |-> "FileDownloader", status |-> status]>>

pushStageStatus(stageStatus, status) ==
    Append(stageStatus, [stage |-> "FileDownloader", status |-> status])

\* FileDownloader::hashFile(filepath).
hashFile(disk, filepath) ==
    IF disk[filepath] # NoFile
    THEN [thrown |-> FALSE, hash |-> asciiToHex(HashData(disk[filepath]))]
    ELSE [thrown |-> TRUE, hash |-> ""]

\* The output file path of download: the downloads folder for a compressed
\* file, the contents folder for a raw one.
outputFilePath_AlwaysContents(config) ==
    <<"contents", config.contentFileName.text>>

outputFilePath(config) ==
    LET compressed == "raw" # config.compressionType.text
    IN  <<IF compressed THEN "downloads" ELSE "contents",
          config.contentFileName.text>>

\* download left by an exception: the hash and the paths are as they were.
Thrown(hash, ctx, disk, inputFileHash) ==
    [thrown |-> TRUE, downloadedFileHash |-> hash, paths |-> ctx.paths,
     files |-> disk, inputFileHash |-> inputFileHash]

\* download returned.
Returned(hash, paths, disk, inputFileHash) ==
    [thrown |-> FALSE, downloadedFileHash |-> hash, paths |-> paths,
     files |-> disk, inputFileHash |-> inputFileHash]

download_NoPath(config, hash, ctx, disk, served, transport) ==
    IF config.url.type # "string"
    THEN Thrown(hash, ctx, disk, "")
    ELSE LET got == HTTPRequest_download(disk, outputFilePath(config), served,
                                         transport)
             inputFileHash == hashFile(got.files, outputFilePath(config))
         IN  IF got.error \/ inputFileHash.thrown
             THEN Thrown(hash, ctx, got.files, "")
             ELSE IF hash = inputFileHash.hash
             THEN Returned(hash, ctx.paths, got.files, inputFileHash.hash)
             ELSE Returned(inputFileHash.hash, ctx.paths, got.files,
                           inputFileHash.hash)

download_ThrowsWhenUnchanged(config, hash, ctx, disk, served, transport) ==
    IF config.url.type # "string"
    THEN Thrown(hash, ctx, disk, "")
    ELSE LET got == HTTPRequest_download(disk, outputFilePath(config), served,
                                         transport)
             inputFileHash == hashFile(got.files, outputFilePath(config))
         IN  IF got.error \/ inputFileHash.thrown
             THEN Thrown(hash, ctx, got.files, "")
             ELSE IF hash = inputFileHash.hash
             THEN Thrown(hash, ctx, got.files, inputFileHash.hash)
             ELSE Returned(inputFileHash.hash,
                           Append(ctx.paths, outputFilePath(config)),
                           got.files, inputFileHash.hash)

download_NoHashCheck(config, hash, ctx, disk, served, transport) ==
    IF config.url.type # "string"
    THEN Thrown(hash, ctx, disk, "")
    ELSE LET got == HTTPRequest_download(disk, outputFilePath(config), served,
                                         transport)
             inputFileHash == hashFile(got.files, outputFilePath(config))
         IN  IF got.error \/ inputFileHash.thrown
             THEN Thrown(hash, ctx, got.files, "")
             ELSE Returned(inputFileHash.hash,
                           Append(ctx.paths, outputFilePath(config)),
                           got.files, inputFileHash.hash)

\* FileDownloader::download(context): reads the configuration (a missing
\* option throws), downloads to the output file path, hashes the file, and
\* returns at once when the hash is the one of the last download; otherwise
\* it stores the new hash and appends the path.
download(config, hash, ctx, disk, served, transport) ==
    IF config.url.type # "string"
    THEN Thrown(hash, ctx, disk, "")
    ELSE LET got == HTTPRequest_download(disk, outputFilePath(config), served,
                                         transport)
             inputFileHash == hashFile(got.files, outputFilePath(config))
         IN  IF got.error \/ inputFileHash.thrown
             THEN Thrown(hash, ctx, got.files, "")
             ELSE IF hash = inputFileHash.hash
             THEN Returned(hash, ctx.paths, got.files, inputFileHash.hash)
             ELSE Returned(inputFileHash.hash,
                           Append(ctx.paths, outputFilePath(config)),
                           got.files, inputFileHash.hash)

handleRequest_Swallows(caught) ==
    IF caught
    THEN [status |-> "fail", throws |-> FALSE]
    ELSE [status |-> "ok", throws |-> FALSE]

\* handleRequest pushing "ok" in its catch block too.
handleRequest_AlwaysOk(caught) ==
    IF caught
    THEN [status |-> "ok", throws |-> TRUE]
    ELSE [status |-> "ok", throws |-> FALSE]

\* FileDownloader::handleRequest after download: an exception is answered
\* by the status "fail" and thrown again, a return by the status "ok" and
\* the call of the next handler.
handleRequest(caught) ==
    IF caught
    THEN [status |-> "fail", throws |-> TRUE]
    ELSE [status |-> "ok", throws |-> FALSE]

\* A provider is built for a file source: its base context has no hash of a
\* last download.
Configure(config) ==
    /\ rpc = "idle"
    /\ configData' = config
    /\ downloadedFileHash' = ""
    /\ context' = [paths |-> <<>>, stageStatus |-> <<>>]
    /\ run' = NoRun
    /\ prev' = NoPrev
    /\ UNCHANGED <<remote, files, rpc, otherThanDownloader>>

\* The url serves another content: the next download is not of what the
\* last one fetched.
UpstreamChange(content) ==
    /\ content # remote
    /\ remote' = content
    /\ run' = [run EXCEPT !.quiet = FALSE]
    /\ UNCHANGED <<configData, downloadedFileHash, files, context, rpc, prev,
                   otherThanDownloader>>

\* A cycle begins: handleRequest is entered with the context of the run,
\* which is fresh or already holds what an earlier handler left.
StartRun(earlier) ==
    /\ rpc = "idle"
    /\ context' = IF earlier
                  THEN [paths |-> << <<"contents", "other">> >>,
                        stageStatus |-> <<[stage |-> "Earlier",
                                           status |-> "ok"]>>]
                  ELSE [paths |-> <<>>, stageStatus |-> <<>>]
    /\ prev' = IF run.result = "none"
               THEN prev
               ELSE [result |-> run.result,
                     appended |-> Len(context.paths) > Len(run.start.paths)]
    /\ run' = [start |-> [hash |-> downloadedFileHash,
                          paths |-> context'.paths,
                          stageStatus |-> context'.stageStatus],
               transport |-> "", fetched |-> "", caught |-> FALSE,
               nextCalled |-> FALSE, result |-> "none", written |-> FALSE,
               quiet |-> run.quiet, same |-> FALSE]
    /\ rpc' = "download"
    /\ UNCHANGED <<remote, configData, downloadedFileHash, files,
                   otherThanDownloader>>

\* handleRequest calls download.
Download(transport) ==
    /\ rpc = "download"
    /\ LET d == download(configData, downloadedFileHash, context, files,
                         remote, transport)
       IN  /\ downloadedFileHash' = d.downloadedFileHash
           /\ context' = [context EXCEPT !.paths = d.paths]
           /\ files' = d.files
           /\ run' = [run EXCEPT
                        !.transport = transport,
                        !.fetched = d.inputFileHash,
                        !.caught = d.thrown,
                        !.written =
                            @ \/ d.downloadedFileHash # downloadedFileHash,
                        !.quiet = TRUE,
                        !.same = run.quiet]
    /\ rpc' = "status"
    /\ UNCHANGED <<remote, configData, prev, otherThanDownloader>>

\* handleRequest pushes the status of the stage, and throws again what it
\* caught.
PushStageStatus ==
    /\ rpc = "status"
    /\ LET h == handleRequest(run.caught)
       IN  /\ context' = [context EXCEPT
                            !.stageStatus = pushStageStatus(@, h.status)]
           /\ IF h.throws
              THEN /\ rpc' = "idle"
                   /\ run' = [run EXCEPT !.result = "fail"]
              ELSE /\ rpc' = "next"
                   /\ run' = run
    /\ UNCHANGED <<remote, configData, downloadedFileHash, files, prev,
                   otherThanDownloader>>

\* AbstractHandler::handleRequest(context): the rest of the chain runs, if
\* there is one; a later stage leaves its status and returns or throws.
NextHandler(outcome) ==
    /\ rpc = "next"
    /\ context' = [context EXCEPT
                     !.stageStatus =
                        CASE outcome = "none" -> @
                          [] outcome = "ok" ->
                                Append(@, [stage |-> "Later",
                                           status |-> "ok"])
                          [] outcome = "throw" ->
                                Append(@, [stage |-> "Later",
                                           status |-> "fail"])]
    /\ run' = [run EXCEPT
                 !.nextCalled = TRUE,
                 !.result = IF outcome = "throw" THEN "fail" ELSE "ok"]
    /\ rpc' = "idle"
    /\ UNCHANGED <<remote, configData, downloadedFileHash, files, prev,
                   otherThanDownloader>>

NextDownloader ==
    \/ \E config \in FileConfigs : Configure(config)
    \/ \E content \in Contents : UpstreamChange(content)
    \/ \E earlier \in BOOLEAN : StartRun(earlier)
    \/ \E transport \in Transports : Download(transport)
    \/ PushStageStatus
    \/ \E outcome \in NextOutcomes : NextHandler(outcome)

SpecDownloader == Init /\ [][NextDownloader]_vars

\* ------------------------------------------------- properties of a run
Ended == rpc = "idle" /\ run.result # "none"

StatusOf(status) == [stage |-> "FileDownloader", status |-> status]

\* What the downloader itself has pushed on stageStatus.
OwnStatuses ==
    SelectSeq(context.stageStatus, LAMBDA r : r.stage = "FileDownloader")

\* The download of this run fetched a file whose hash is not the one of the
\* last download.
HashDiffers == run.fetched # "" /\ run.fetched # run.start.hash

\* The download of this run fetched a file whose hash is the one of the
\* last download.
HashEqual == run.fetched # "" /\ run.fetched = run.start.hash

FreshRawRun ==
    /\ configData.compressionType = String("raw")
    /\ run.start.paths = <<>>
    /\ run.start.stageStatus = <<>>

\* C15: when the downloaded file's hash differs from downloadedFileHash, the
\* run has appended exactly one path, the output file path, then the status
\* {FileDownloader, ok}, and then the next handler is invoked; for a raw
\* file source and a fresh context the downloader's statuses are exactly
\* [{FileDownloader, ok}] and paths holds exactly one path, under the
\* contents folder.
C15_NewContentAppended ==
    HashDiffers =>
        /\ context.paths = Append(run.start.paths, outputFilePath(configData))
        /\ rpc # "status" =>
              /\ StartsWith(context.stageStatus,
                            Append(run.start.stageStatus, StatusOf("ok")))
              /\ rpc = "next" \/ run.nextCalled
              /\ FreshRawRun =>
                    /\ OwnStatuses = <<StatusOf("ok")>>
                    /\ context.paths = << <<"contents", "y.json">> >>

\* A run of a raw file source on a fresh context has ended well after
\* fetching new content and calling the next handler.
C15_Witness ==
    /\ Ended
    /\ run.result = "ok"
    /\ HashDiffers
    /\ FreshRawRun
    /\ run.nextCalled
    /\ context.paths = << <<"contents", "y.json">> >>

\* The download of this run was left by an exception.
DownloadFailed == run.caught

\* C16: when the download fails (the transport reports an error, or returns
\* without a file that can be hashed), the run appends no path, appends the
\* status {FileDownloader, fail} and nothing after it, ends with the error
\* thrown to the caller, and the next handler is not invoked.
C16_FailureStopsTheRun ==
    (/\ run.transport \in {"error", "unreadable"}
     /\ configData.url.type = "string")
        => /\ DownloadFailed
           /\ context.paths = run.start.paths
           /\ downloadedFileHash = run.start.hash
           /\ rpc # "status" =>
                /\ Ended
                /\ run.result = "fail"
                /\ ~run.nextCalled
                /\ context.stageStatus =
                      Append(run.start.stageStatus, StatusOf("fail"))

\* A run whose context already held a path has ended on a file that could
\* not be hashed.
C16_Witness ==
    /\ Ended
    /\ run.transport = "unreadable"
    /\ configData.url.type = "string"
    /\ run.start.paths # <<>>
    /\ run.result = "fail"

\* C17 as stated: when the hash equals downloadedFileHash the run records
\* the status "unchanged" and the later stages are skipped.
C17_Original ==
    (HashEqual /\ rpc # "status")
        => /\ OwnStatuses # <<>>
           /\ OwnStatuses[Len(OwnStatuses)].status = "unchanged"
           /\ Ended
           /\ ~run.nextCalled

\* C17: when the downloaded file's hash equals downloadedFileHash, download
\* returns without error, no path is appended and the hash stays; the status
\* recorded is {FileDownloader, ok} and the next handler is invoked, with
\* paths as they were when the run began.
C17_UnchangedContent ==
    HashEqual =>
        /\ ~DownloadFailed
        /\ context.paths = run.start.paths
        /\ downloadedFileHash = run.start.hash
        /\ rpc # "status" =>
              /\ StartsWith(context.stageStatus,
                            Append(run.start.stageStatus, StatusOf("ok")))
              /\ \A i \in 1..Len(OwnStatuses) : OwnStatuses[i].status = "ok"
              /\ rpc = "next" \/ run.nextCalled

\* A run that fetched the content of the last download has ended after the
\* next handler was called.
C17_Witness ==
    /\ Ended
    /\ HashEqual
    /\ run.start.hash # ""
    /\ run.nextCalled
    /\ run.result = "ok"

\* C18: when a run that ended well and appended a path is followed by a run
\* of the same source that fetches while the url still serves what the
\* first run fetched, the second run appends no path.
C18_SecondRunAppendsNothing ==
    (/\ prev.result = "ok"
     /\ prev.appended
     /\ run.same
     /\ run.fetched # "")
        => /\ context.paths = run.start.paths
           /\ downloadedFileHash = run.start.hash

\* The second of two such runs has ended well.
C18_Witness ==
    /\ Ended
    /\ prev.result = "ok"
    /\ prev.appended
    /\ run.same
    /\ run.fetched # ""
    /\ run.result = "ok"
    /\ context.paths = <<>>

\* C19: whenever a run has ended in failure, in the downloader or in a later
\* stage, downloadedFileHash is what it was when the run began.
C19_FailedRunKeepsHash ==
    (Ended /\ run.result = "fail") => downloadedFileHash = run.start.hash

\* C20: within a run no step removes or rewrites an entry of paths or of
\* stageStatus, and downloadedFileHash changes at most once, in download,
\* to the hash of the fetched file, which differs from the value it had.
C20_RunOnlyGrows ==
    [][rpc # "idle" =>
          /\ StartsWith(context'.paths, context.paths)
          /\ StartsWith(context'.stageStatus, context.stageStatus)
          /\ downloadedFileHash' # downloadedFileHash =>
                /\ ~run.written
                /\ rpc = "download"
                /\ run'.fetched = downloadedFileHash'
                /\ downloadedFileHash = run.start.hash]_vars

\* A run that began with a path and a status already in its context has
\* ended after writing the hash once and appending a path and two statuses.
C20_Witness ==
    /\ Ended
    /\ run.written
    /\ run.start.paths # <<>>
    /\ downloadedFileHash # run.start.hash
    /\ Len(context.paths) = Len(run.start.paths) + 1
    /\ Len(context.stageStatus) = Len(run.start.stageStatus) + 2

\* Where the claim puts the artifact of the configured source.
ArtifactLocation ==
    IF configData.compressionType = String("raw")
    THEN <<"contents", configData.contentFileName.text>>
    ELSE <<"downloads", configData.contentFileName.text>>

\* C21: once the transport has written the artifact, the file is at
\* downloadsFolder/contentFileName when compressionType is not raw and at
\* contentsFolder/contentFileName when it is raw (the file there is the one
\* that was hashed), and the path appended to paths, when one is appended,
\* is that location.
C21_OutputLocation ==
    (run.transport = "ok" /\ configData.url.type = "string")
        => /\ files[ArtifactLocation] # NoFile
           /\ asciiToHex(HashData(files[ArtifactLocation])) = run.fetched
           /\ HashDiffers =>
                context.paths = Append(run.start.paths, ArtifactLocation)

\* A compressed artifact with new content has been written under the
\* downloads folder, where no file was before, and its path appended.
C21_Witness ==
    /\ Ended
    /\ run.transport = "ok"
    /\ configData.compressionType = String("xz")
    /\ HashDiffers
    /\ files[<<"downloads", "y.json">>] # NoFile
    /\ files[<<"contents", "y.json">>] = NoFile
    /\ context.paths[Len(context.paths)] = <<"downloads", "y.json">>

\* ------------------------------------------------------------------------
\* ContentModuleFacade and the scheduler of each provider.

\* The names a caller may use.
Names == {"a", "b"}

\* The periods a caller may ask for, in time units.
Intervals == {1, 2}

\* On-demand requests a provider can hold before the caller is made to wait.
MaxDemand == 1

\* The chain of a provider: Downloader, Verifier, Decompressor, Publisher.
Stages == <<"Downloader", "Verifier", "Decompressor", "Publisher">>

\* A provider as addProvider builds it: timer off, no run in flight.
NewProvider ==
    [scheduled |-> FALSE, interval |-> 1, wait |-> 0, inFlight |-> 0,
     stage |-> 0, demand |-> 0, failed |-> FALSE, store |-> ""]

\* The databasePath options of the providers' configurations, and the one
\* each content source is configured with when every source has its own.
StorePaths == {"p", "q"}

StoreOf(name) == IF name = "a" THEN "p" ELSE "q"

\* Opening a store without the check that no one holds it.
storeIsFree_NoLock(providers, databasePath) == TRUE

\* The provider's context opens the Persistent State Store at databasePath:
\* the open fails while a registered provider holds that store.
storeIsFree(providers, databasePath) ==
    \A n \in DOMAIN providers : providers[n].store # databasePath

Registered(name) == name \in DOMAIN m_providers

Running(name) == Registered(name) /\ m_providers[name].inFlight > 0

\* What is kept of a call: of one that failed, the operation and the name;
\* of one that succeeded, that it did.
CallOf(op, name, failed) ==
    IF failed
    THEN [op |-> op, name |-> name, failed |-> TRUE]
    ELSE [op |-> "any", name |-> "", failed |-> FALSE]

\* A chain execution begins at the first stage.
beginRun(p) == [p EXCEPT !.inFlight = @ + 1, !.stage = 1]

onTick_NoSkip(p) == beginRun([p EXCEPT !.wait = p.interval])

\* The timer of a provider fires: the wait for the next tick begins, with
\* the interval as it is now; the chain is run unless a run is in flight, in
\* which case the tick is skipped.
onTick(p) ==
    IF p.inFlight > 0
    THEN [p EXCEPT !.wait = p.interval]
    ELSE beginRun([p EXCEPT !.wait = p.interval])

startScheduling_KeepsNothing(p, interval) ==
    [NewProvider EXCEPT !.scheduled = TRUE, !.interval = interval,
                        !.wait = interval]

\* startScheduling(interval) on a provider: periodic invocation begins; on
\* a provider already scheduled the period is replaced.
startScheduling(p, interval) ==
    IF p.scheduled
    THEN [p EXCEPT !.interval = interval]
    ELSE [p EXCEPT !.scheduled = TRUE, !.interval = interval,
                   !.wait = interval]

startOndemand_RestartsTimer(p) ==
    [p EXCEPT !.demand = @ + 1, !.wait = p.interval]

\* startOndemand() on a provider: one run is asked for, the timer is not
\* touched.
startOndemand(p) == [p EXCEPT !.demand = @ + 1]

changeSchedulerInterval_Restarts(p, interval) ==
    [p EXCEPT !.interval = interval, !.wait = interval, !.inFlight = 0,
              !.stage = 0]

\* changeSchedulerInterval(interval) on a provider: the period is replaced;
\* the wait under way and the run in flight go on.
changeSchedulerInterval(p, interval) == [p EXCEPT !.interval = interval]

\* stop() on a provider: the timer is off.
stopScheduler(p) == [p EXCEPT !.scheduled = FALSE, !.wait = 0]

runStage_FailureStopsScheduler(p, ok) ==
    IF ~ok
    THEN [p EXCEPT !.inFlight = @ - 1, !.stage = 0, !.failed = TRUE,
                   !.scheduled = FALSE]
    ELSE IF p.stage < Len(Stages)
    THEN [p EXCEPT !.stage = @ + 1]
    ELSE [p EXCEPT !.inFlight = @ - 1, !.stage = 0, !.failed = FALSE]

\* The stage under way ends: on success the next stage begins, or the run
\* ends well after the last one; on failure the scheduler catches the error
\* and the run ends, the provider being otherwise as it was.
runStage(p, ok) ==
    IF ~ok
    THEN [p EXCEPT !.inFlight = @ - 1, !.stage = 0, !.failed = TRUE]
    ELSE IF p.stage < Len(Stages)
    THEN [p EXCEPT !.stage = @ + 1]
    ELSE [p EXCEPT !.inFlight = @ - 1, !.stage = 0, !.failed = FALSE]

stopMayReturn_NoWait == TRUE

\* stop() waits until no provider has a run in flight or still to begin.
stopMayReturn ==
    \A n \in DOMAIN m_providers :
        m_providers[n].inFlight = 0 /\ m_providers[n].demand = 0

\* The lock stop() holds while it waits: none.
lockWhileStopWaits_Exclusive == "exclusive"

lockWhileStopWaits == "free"

WithProvider(name, p) ==
    [n \in DOMAIN m_providers \cup {name} |->
        IF n = name THEN p ELSE m_providers[n]]

\* addProvider(name, parameters): under exclusive access; a construction
\* error (bad configuration, store that cannot be opened) or a name already
\* registered leaves the registry as it was.
AddProvider(name, valid, databasePath) ==
    /\ phase = "up"
    /\ m_mutex = "free"
    /\ IF valid /\ ~Registered(name) /\ storeIsFree(m_providers, databasePath)
       THEN /\ m_providers' =
                  WithProvider(name, [NewProvider EXCEPT !.store = databasePath])
            /\ called' = CallOf("addProvider", name, FALSE)
       ELSE /\ m_providers' = m_providers
            /\ called' = CallOf("addProvider", name, TRUE)
    /\ UNCHANGED <<m_mutex, phase, otherThanFacade>>

StartScheduling_RegistersUnknown(name, interval) ==
    /\ phase = "up"
    /\ m_mutex = "free"
    /\ m_providers' =
          WithProvider(name,
              startScheduling(IF Registered(name) THEN m_providers[name]
                                                  ELSE NewProvider, interval))
    /\ called' = CallOf("startScheduling", name, ~Registered(name))
    /\ UNCHANGED <<m_mutex, phase, otherThanFacade>>

\* startScheduling(name, interval): under shared access.
StartScheduling(name, interval) ==
    /\ phase = "up"
    /\ m_mutex = "free"
    /\ IF Registered(name)
       THEN /\ m_providers' =
                 WithProvider(name, startScheduling(m_providers[name], interval))
            /\ called' = CallOf("startScheduling", name, FALSE)
       ELSE /\ m_providers' = m_providers
            /\ called' = CallOf("startScheduling", name, TRUE)
    /\ UNCHANGED <<m_mutex, phase, otherThanFacade>>

\* startOndemand(name): under shared access.
StartOndemand(name) ==
    /\ phase = "up"
    /\ m_mutex = "free"
    /\ Registered(name) => m_providers[name].demand < MaxDemand
    /\ IF Registered(name)
       THEN /\ m_providers' =
                 WithProvider(name, startOndemand(m_providers[name]))
            /\ called' = CallOf("startOndemand", name, FALSE)
       ELSE /\ m_providers' = m_providers
            /\ called' = CallOf("startOndemand", name, TRUE)
    /\ UNCHANGED <<m_mutex, phase, otherThanFacade>>

\* changeSchedulerInterval(name, interval): under shared access.
ChangeSchedulerInterval(name, interval) ==
    /\ phase = "up"
    /\ m_mutex = "free"
    /\ IF Registered(name)
       THEN /\ m_providers' =
                 WithProvider(name,
                     changeSchedulerInterval(m_providers[name], interval))
            /\ called' = CallOf("changeSchedulerInterval", name, FALSE)
       ELSE /\ m_providers' = m_providers
            /\ called' = CallOf("changeSchedulerInterval", name, TRUE)
    /\ UNCHANGED <<m_mutex, phase, otherThanFacade>>

\* stop() begins: under exclusive access the scheduler of every provider is
\* stopped; then stop waits for the runs in flight.
StopBegin ==
    /\ phase = "up"
    /\ m_mutex = "free"
    /\ m_providers' = [n \in DOMAIN m_providers |->
                          stopScheduler(m_providers[n])]
    /\ m_mutex' = lockWhileStopWaits
    /\ phase' = "stopping"
    /\ called' = CallOf("stop", "", FALSE)
    /\ UNCHANGED otherThanFacade

\* stop() returns.
StopReturn ==
    /\ phase = "stopping"
    /\ stopMayReturn
    /\ phase' = "stopped"
    /\ m_mutex' = "free"
    /\ UNCHANGED <<m_providers, called, otherThanFacade>>

\* A time unit passes on the timer of a provider.
Tick(name) ==
    /\ Registered(name)
    /\ m_providers[name].scheduled
    /\ m_providers[name].wait > 0
    /\ m_providers' = [m_providers EXCEPT ![name].wait = @ - 1]
    /\ UNCHANGED <<m_mutex, phase, called, otherThanFacade>>

\* The timer of a provider fires; a tick that finds a run in flight is
\* recorded as failed.
TimerFire(name) ==
    /\ Registered(name)
    /\ m_providers[name].scheduled
    /\ m_providers[name].wait = 0
    /\ m_providers' = [m_providers EXCEPT ![name] = onTick(@)]
    /\ called' = CallOf("tick", name, m_providers[name].inFlight > 0)
    /\ UNCHANGED <<m_mutex, phase, otherThanFacade>>

\* A provider with no run in flight runs the chain once for a request made
\* by startOndemand.
DemandRun(name) ==
    /\ Registered(name)
    /\ m_providers[name].demand > 0
    /\ m_providers[name].inFlight = 0
    /\ m_providers' =
          [m_providers EXCEPT ![name] = beginRun([@ EXCEPT !.demand = @ - 1])]
    /\ UNCHANGED <<m_mutex, phase, called, otherThanFacade>>

\* The stage under way of a run ends, well or not.
RunStage(name, ok) ==
    /\ Running(name)
    /\ m_providers' = [m_providers EXCEPT ![name] = runStage(@, ok)]
    /\ UNCHANGED <<m_mutex, phase, called, otherThanFacade>>

NextFacade ==
    \/ \E name \in Names, valid \in BOOLEAN :
          AddProvider(name, valid, StoreOf(name))
    \/ \E name \in Names, interval \in Intervals :
          StartScheduling(name, interval)
    \/ \E name \in Names : StartOndemand(name)
    \/ \E name \in Names, interval \in Intervals :
          ChangeSchedulerInterval(name, interval)
    \/ StopBegin
    \/ StopReturn
    \/ \E name \in Names : Tick(name)
    \/ \E name \in Names : TimerFire(name)
    \/ \E name \in Names : DemandRun(name)
    \/ \E name \in Names, ok \in BOOLEAN : RunStage(name, ok)

SpecFacade == Init /\ [][NextFacade]_vars

\* The timer task of each provider is not held up for ever: time passes on
\* a timer that is on, and a timer that is due fires.
SpecFacadeFair ==
    /\ SpecFacade
    /\ \A name \in Names : WF_vars(Tick(name)) /\ WF_vars(TimerFire(name))

\* ------------------------------------------ properties of the scheduler
\* The timer of provider n fires in this step.
Fires(n) ==
    /\ m_providers[n].scheduled
    /\ m_providers[n].wait = 0
    /\ m_providers'[n].scheduled
    /\ m_providers'[n].wait > 0

\* A chain execution of provider n begins in this step.
Begins(n) == m_providers'[n].inFlight > m_providers[n].inFlight

\* C22: a provider never has more than one chain execution in flight; a
\* tick that fires while a run is in flight changes nothing of the provider
\* but the wait for the next tick, so that nothing is queued; and a run
\* begins only when none is in flight, on a tick that fires or for a request
\* of startOndemand.
C22_RunsAreSerialized ==
    [][\A n \in DOMAIN m_providers :
          /\ m_providers'[n].inFlight <= 1
          /\ (Fires(n) /\ m_providers[n].inFlight > 0) =>
                m_providers'[n] =
                    [m_providers[n] EXCEPT !.wait = m_providers[n].interval]
          /\ Begins(n) =>
                /\ m_providers[n].inFlight = 0
                /\ \/ Fires(n)
                   \/ m_providers'[n].demand < m_providers[n].demand]_vars

\* A tick of provider a has just been skipped: its run is in flight and
\* nothing is asked for.
C22_Witness ==
    /\ called = [op |-> "tick", name |-> "a", failed |-> TRUE]
    /\ Running("a")
    /\ m_providers["a"].inFlight = 1
    /\ m_providers["a"].demand = 0
    /\ m_providers["a"].wait = m_providers["a"].interval

\* A chain execution of provider n ends in this step.
Finishes(n) == m_providers'[n].inFlight < m_providers[n].inFlight

\* C23: when stop() has returned no provider has a run in flight, a timer
\* on or a request pending, and from then on the providers stay as they
\* are; the steps of stop() leave every run in flight at its stage, and a
\* run only ends by a stage that fails or by its last stage ending well.
C23_StopWaitsForRuns ==
    [][/\ phase' = "stopped" =>
            \A n \in DOMAIN m_providers' :
                /\ m_providers'[n].inFlight = 0
                /\ m_providers'[n].demand = 0
                /\ ~m_providers'[n].scheduled
       /\ phase = "stopped" => m_providers' = m_providers
       /\ \A n \in DOMAIN m_providers :
            /\ phase' # phase =>
                  /\ m_providers'[n].inFlight = m_providers[n].inFlight
                  /\ m_providers'[n].stage = m_providers[n].stage
                  /\ m_providers'[n].failed = m_providers[n].failed
            /\ Finishes(n) =>
                  \/ m_providers'[n].failed
                  \/ /\ m_providers[n].stage = Len(Stages)
                     /\ ~m_providers'[n].failed]_vars

\* stop() has been called and waits while the run of provider a, which was
\* scheduled, is at its last stage.
C23_Witness ==
    /\ phase = "stopping"
    /\ Running("a")
    /\ m_providers["a"].stage = Len(Stages)
    /\ ~m_providers["a"].scheduled
    /\ m_providers["a"].interval = 2

C25_IntervalChangeKeepsRun ==
    [][\A n \in DOMAIN m_providers :
          /\ (/\ m_providers[n].inFlight > 0
              /\ m_providers'[n].interval # m_providers[n].interval) =>
                /\ m_providers'[n].inFlight = m_providers[n].inFlight
                /\ m_providers'[n].stage = m_providers[n].stage
                /\ m_providers'[n].failed = m_providers[n].failed
                /\ m_providers'[n].demand = m_providers[n].demand
                /\ m_providers[n].scheduled =>
                      /\ m_providers'[n].scheduled
                      /\ m_providers'[n].wait = m_providers[n].wait
          /\ Fires(n) => m_providers'[n].wait = m_providers[n].interval]_vars

\* The interval of provider a was made shorter than the wait under way
\* while its run goes on.
C25_Witness ==
    /\ Running("a")
    /\ m_providers["a"].stage > 1
    /\ m_providers["a"].scheduled
    /\ m_providers["a"].interval = 1
    /\ m_providers["a"].wait = 2

\* C26: a request of startOndemand adds one run to begin and leaves the rest
\* of the provider, its timer included, as it is; the run begins as soon as
\* no run is in flight, once for each request, and its beginning leaves the
\* timer as it is.
C26_OndemandRunsOnce ==
    [][\A n \in DOMAIN m_providers :
          /\ m_providers'[n].demand > m_providers[n].demand =>
                m_providers'[n] = [m_providers[n] EXCEPT !.demand = @ + 1]
          /\ m_providers'[n].demand < m_providers[n].demand =>
                m_providers'[n] = [m_providers[n] EXCEPT !.demand = @ - 1,
                                                         !.inFlight = 1,
                                                         !.stage = 1]
          /\ (m_providers[n].demand > 0 /\ m_providers[n].inFlight = 0) =>
                ENABLED DemandRun(n)]_vars

\* Provider a, never scheduled, runs on demand while provider b has a
\* request pending in the middle of a wait.
C26_Witness ==
    /\ phase = "up"
    /\ Registered("a")
    /\ Registered("b")
    /\ ~m_providers["a"].scheduled
    /\ m_providers["a"].inFlight = 1
    /\ m_providers["a"].demand = 0
    /\ m_providers["b"].scheduled
    /\ m_providers["b"].demand = 1
    /\ m_providers["b"].interval = 2
    /\ m_providers["b"].wait = 1

\* The call changes nothing but the record of its failure.
FailsWithoutEffect ==
    /\ called'.failed
    /\ m_providers' = m_providers
    /\ phase' = phase
    /\ m_mutex' = m_mutex

\* C27: for a name that is not in the registry, startScheduling,
\* startOndemand and changeSchedulerInterval cannot but fail and leave the
\* registry and every provider as they are.
C27_UnknownNameFails ==
    \A name \in Names \ DOMAIN m_providers :
        /\ ~ENABLED (StartOndemand(name) /\ ~FailsWithoutEffect)
        /\ \A i \in Intervals :
              /\ ~ENABLED (StartScheduling(name, i) /\ ~FailsWithoutEffect)
              /\ ~ENABLED (ChangeSchedulerInterval(name, i)
                             /\ ~FailsWithoutEffect)

\* startScheduling on the unknown name b has failed while provider a is
\* scheduled and runs.
C27_Witness ==
    /\ called = [op |-> "startScheduling", name |-> "b", failed |-> TRUE]
    /\ ~Registered("b")
    /\ Running("a")
    /\ m_providers["a"].scheduled

\* The last run of provider n failed, no run is in flight, its timer is on
\* and the facade is up.
FailedAndScheduled(n) ==
    /\ phase = "up"
    /\ Registered(n)
    /\ m_providers[n].failed
    /\ m_providers[n].inFlight = 0
    /\ m_providers[n].scheduled

\* C28: the failure of a stage ends the run and leaves the provider
\* registered with its timer, its period and its requests as they were; and
\* a provider whose run failed while its timer is on begins another run,
\* unless stop() is called first.
C28_FailedRunIsRetried ==
    /\ [][\A n \in DOMAIN m_providers :
             (Finishes(n) /\ m_providers'[n].failed) =>
                 m_providers'[n] = [m_providers[n] EXCEPT !.inFlight = 0,
                                                          !.stage = 0,
                                                          !.failed = TRUE]]_vars
    /\ \A n \in Names :
          FailedAndScheduled(n) ~> (Running(n) \/ phase # "up")

\* A run of provider a is in flight after its last run failed, with the
\* timer on.
C28_Witness ==
    /\ phase = "up"
    /\ Running("a")
    /\ m_providers["a"].failed
    /\ m_providers["a"].scheduled
    /\ m_providers["a"].demand = 0

\* ------------------------------------------------------------------------
\* ExecutionContext: the first handler of a provider's construction, which
\* settles the output folder and opens the store.

\* GENERIC_OUTPUT_FOLDER_PATH
GENERIC_OUTPUT_FOLDER_PATH == <<"b", "b">>

\* A path as the value of an option; the empty path is the empty string.
PathOption(path) == [type |-> "string", text |-> path]

\* What configData may hold under outputFolder and under databasePath.
OutputFolderOptions == {NoOption, PathOption(<<>>)} \cup {PathOption(p) : p \in Paths}

DatabasePathOptions == {NoOption} \cup {PathOption(p) : p \in Paths}

outputFolderOf_NoFallback(option) ==
    IF option = NoOption THEN GENERIC_OUTPUT_FOLDER_PATH ELSE option.text

\* The output folder for the option: the generic one when the option is
\* missing or empty.
outputFolderOf(option) ==
    IF option = NoOption \/ option.text = <<>>
    THEN GENERIC_OUTPUT_FOLDER_PATH
    ELSE option.text

createRocksDB_CreateIfMissing(f, databasePath) ==
    RocksDBWrapper(f, databasePath, TRUE)

\* The store of the context: a RocksDBWrapper at databasePath that does not
\* create the store.
createRocksDB(f, databasePath) == RocksDBWrapper(f, databasePath, FALSE)

\* ExecutionContext::handleRequest(context): the output folder is settled
\* and created, and the store opened when the configuration names one; which
\* of the two comes first is not known.
ExecutionContext_handleRequest(f, outputFolderOption, databasePath, folderFirst) ==
    LET outputFolder == outputFolderOf(outputFolderOption)
        withFolder(g) == [g EXCEPT !.dirs = create_directories(@, outputFolder)]
        withStore(g) == IF databasePath = NoOption
                        THEN [thrown |-> "none", fs |-> g]
                        ELSE createRocksDB(g, databasePath.text)
    IN  IF folderFirst
        THEN LET r == withStore(withFolder(f))
             IN  [thrown |-> r.thrown, outputFolder |-> outputFolder,
                  fs |-> r.fs]
        ELSE LET r == withStore(f)
             IN  IF r.thrown # "none"
                 THEN [thrown |-> r.thrown, outputFolder |-> <<>>, fs |-> r.fs]
                 ELSE [thrown |-> "none", outputFolder |-> outputFolder,
                       fs |-> withFolder(r.fs)]

\* handleRequest is called on a base context with these options.
Resolve(outputFolderOption, databasePath, folderFirst) ==
    /\ LET r == ExecutionContext_handleRequest(fs, outputFolderOption,
                                               databasePath, folderFirst)
       IN  /\ fs' = r.fs
           /\ resolved' =
                 [op |-> "handleRequest",
                  outputFolderOption |-> outputFolderOption,
                  databasePath |-> databasePath,
                  thrown |-> r.thrown,
                  outputFolder |-> r.outputFolder,
                  storeExisted |-> /\ databasePath # NoOption
                                   /\ databasePath.text \in fs.stores,
                  folderExisted |-> outputFolderOf(outputFolderOption) \in fs.dirs]
    /\ UNCHANGED otherThanContext

\* removeOutputFolderIfExists(outputFolder)
removeOutputFolderIfExists(path) ==
    /\ fs' = [dirs |-> {p \in fs.dirs : path \notin UpTo(p)},
              stores |-> {p \in fs.stores : path \notin UpTo(p)}]
    /\ resolved' = NoResolve
    /\ UNCHANGED otherThanContext

\* Utils::RocksDBWrapper(m_databasePath.string()): a store is initialized
\* and closed.
CreateDatabase(path) ==
    /\ fs' = RocksDBWrapper(fs, path, TRUE).fs
    /\ resolved' = NoResolve
    /\ UNCHANGED otherThanContext

NextContext ==
    \/ \E o \in OutputFolderOptions, d \in DatabasePathOptions,
          folderFirst \in BOOLEAN : Resolve(o, d, folderFirst)
    \/ \E path \in Paths : removeOutputFolderIfExists(path)
    \/ \E path \in Paths : CreateDatabase(path)

SpecContext == Init /\ [][NextContext]_vars

\* C29: when handleRequest returns, the context's output folder is the
\* generic path if the option is absent or empty and the option's path
\* otherwise, and that folder exists, whether it did before or not.
C29_OutputFolderResolved ==
    (resolved.op = "handleRequest" /\ resolved.thrown = "none")
        => /\ (\/ resolved.outputFolderOption = NoOption
               \/ resolved.outputFolderOption = PathOption(<<>>))
                 => resolved.outputFolder = GENERIC_OUTPUT_FOLDER_PATH
           /\ (/\ resolved.outputFolderOption # NoOption
               /\ resolved.outputFolderOption # PathOption(<<>>))
                 => resolved.outputFolder = resolved.outputFolderOption.text
           /\ resolved.outputFolder \in fs.dirs

\* handleRequest has returned for an empty option when the generic folder
\* did not exist.
C29_Witness ==
    /\ resolved.op = "handleRequest"
    /\ resolved.thrown = "none"
    /\ resolved.outputFolderOption = PathOption(<<>>)
    /\ ~resolved.folderExisted
    /\ GENERIC_OUTPUT_FOLDER_PATH \in fs.dirs

\* C30: when the configuration names a databasePath, handleRequest throws
\* std::runtime_error if no store was initialized there, and leaves none
\* there; it returns if one was.
C30_StoreNotCreated ==
    (resolved.op = "handleRequest" /\ resolved.databasePath # NoOption)
        => /\ ~resolved.storeExisted
                => /\ resolved.thrown = "runtime_error"
                   /\ resolved.databasePath.text \notin fs.stores
           /\ resolved.storeExisted
                => /\ resolved.thrown = "none"
                   /\ resolved.databasePath.text \in fs.stores

\* handleRequest has thrown for a databasePath two directories deep where no
\* store was.
C30_Witness ==
    /\ resolved.op = "handleRequest"
    /\ resolved.databasePath = PathOption(<<"a", "b">>)
    /\ ~resolved.storeExisted
    /\ resolved.thrown = "runtime_error"

\* ------------------------------------------------ frame of the store's calls
\* What get answers for a key: the exception, the result and the value.
Answer(d, k) ==
    LET r == get(d, k)
    IN  [thrown |-> r.thrown, ret |-> r.ret, out |-> r.out]

\* C34: after put(k, v) or delete_(k), get answers for every other key what
\* it answered before the call; and get, getLastKeyValue, seek and begin
\* leave the store as it was.
C34_FrameOfCalls ==
    /\ last.op \in {"put", "delete_"} =>
          \A k \in Keys \ {last.key} : Answer(db, k) = Answer(last.pre, k)
    /\ last.op \in {"get", "getLastKeyValue", "seek", "begin"} =>
          db = last.pre

\* A key has been deleted from a store that holds a longer key starting with
\* it, which is still there.
C34_Witness ==
    /\ last.op = "delete_"
    /\ last.key = <<0>>
    /\ last.thrown = "none"
    /\ Len(last.pre) = 2
    /\ Len(db) = 1
    /\ StartsWith(db[1].key, <<0>>)

\* ------------------------------------- the directory a failed open leaves
\* C37: after the wrapper's constructor has run at a path, the directory at
\* that path and every directory above it exist, whatever createIfMissing
\* was and also when the constructor threw; a constructor that threw has
\* created no store.
C37_DirectoryCreatedBeforeOpen ==
    opened.op = "open"
        => /\ UpTo(opened.path) \subseteq fs.dirs
           /\ opened.thrown # "none" => fs.stores = opened.pre.stores

\* An open with createIfMissing = false has failed at a path where there was
\* neither a store nor a directory; the directory is there now.
C37_Witness ==
    /\ opened.op = "open"
    /\ ~opened.createIfMissing
    /\ opened.thrown = "runtime_error"
    /\ opened.path \notin opened.pre.dirs
    /\ opened.path \in fs.dirs
    /\ opened.path \notin fs.stores

\* -------------------------------------- the status record of the downloader
\* A later stage of the run has thrown.
LaterStageThrew ==
    /\ run.nextCalled
    /\ context.stageStatus # <<>>
    /\ context.stageStatus[Len(context.stageStatus)] =
          [stage |-> "Later", status |-> "fail"]

\* C36 as stated: a run of handleRequest leaves exactly one record of stage
\* FileDownloader, which is "ok" exactly when the next handler was invoked
\* and "fail" exactly when the invocation threw.
C36_Original ==
    Ended
        => /\ Len(OwnStatuses) = 1
           /\ OwnStatuses[1].status = "ok" <=> run.nextCalled
           /\ OwnStatuses[1].status = "fail" <=> run.result = "fail"

\* C36: a run of handleRequest leaves exactly one record of stage
\* FileDownloader, pushed before the next handler is invoked; it is "ok"
\* exactly when the next handler was invoked and "fail" exactly when
\* download threw. The invocation throws exactly when the record is "fail"
\* or a later stage threw, so a throwing invocation can leave "ok".
C36_OneStatusPerRun ==
    /\ rpc \in {"download", "status"} => OwnStatuses = <<>>
    /\ rpc = "next" => OwnStatuses = <<StatusOf("ok")>>
    /\ Ended
        => /\ Len(OwnStatuses) = 1
           /\ OwnStatuses[1].status \in {"ok", "fail"}
           /\ OwnStatuses[1].status = "ok" <=> run.nextCalled
           /\ OwnStatuses[1].status = "fail" <=> run.caught
           /\ run.result = "fail" <=> (run.caught \/ LaterStageThrew)

\* A run whose download succeeded has ended with an exception of a later
\* stage: the downloader's record is "ok".
C36_Witness ==
    /\ Ended
    /\ run.result = "fail"
    /\ ~run.caught
    /\ LaterStageThrew
    /\ OwnStatuses = <<StatusOf("ok")>>

\* ------------------------------------------------- iterators held at once
\* What everything but the iterators and the store is.
otherThanIterators ==
    <<openVars, factoryVars, downloaderVars, facadeVars, resolved, dbsyncVars,
      ctiVars>>

Closed == [i \in IteratorIds |-> <<>>]

\* seek and begin sharing one engine iterator: every iterator that is open
\* is positioned again by the call.
NewIterator_Shared(its, i, r) ==
    [j \in IteratorIds |-> IF j = i \/ its[j] # <<>> THEN <<r>> ELSE <<>>]

\* m_db->NewIterator(rocksdb::ReadOptions()) in seek and begin: every call
\* wraps an engine iterator of its own, which holder i keeps.
NewIterator(its, i, r) == [its EXCEPT ![i] = <<r>>]

\* ++iterator: the engine's iterator moves to the next entry.
Increment(d, r) == [r EXCEPT !.it = ItNext(d, r.it)]

\* auto it = db.seek(k)
SeekIterator(i, k) ==
    /\ pc = "idle"
    /\ iters[i] = <<>>
    /\ iters' = NewIterator(iters, i, seek(db, k))
    /\ UNCHANGED <<storeVars, otherThanIterators>>

\* auto it = db.begin()
BeginIterator(i) ==
    /\ pc = "idle"
    /\ iters[i] = <<>>
    /\ iters' = NewIterator(iters, i, begin(db))
    /\ UNCHANGED <<storeVars, otherThanIterators>>

\* ++it, while it != db.end()
IncrementIterator(i) ==
    /\ iters[i] # <<>>
    /\ ~IteratorAtEnd(db, iters[i][1])
    /\ iters' = [iters EXCEPT ![i] = <<Increment(db, @[1])>>]
    /\ UNCHANGED <<storeVars, otherThanIterators>>

\* The iterator goes out of scope.
ReleaseIterator(i) ==
    /\ iters[i] # <<>>
    /\ iters' = [iters EXCEPT ![i] = <<>>]
    /\ UNCHANGED <<storeVars, otherThanIterators>>

\* The store is written while no iterator is held.
PutWhileClosed(k, v) == iters = Closed /\ Put(k, v)

NextIterators ==
    \/ \E k \in Keys, v \in Values : PutWhileClosed(k, v)
    \/ \E i \in IteratorIds, k \in Keys : SeekIterator(i, k)
    \/ \E i \in IteratorIds : BeginIterator(i)
    \/ \E i \in IteratorIds : IncrementIterator(i)
    \/ \E i \in IteratorIds : ReleaseIterator(i)

SpecIterators == Init /\ [][NextIterators]_vars

\* The entries an iterator has still to visit.
Remaining(d, it) == IF it = <<>> THEN <<>> ELSE RangeFor(d, it[1])

\* C33: a step that opens, advances or releases an iterator leaves the
\* store as it is and changes one iterator only: every other iterator keeps
\* its position and the entries it has still to visit.
C33_IteratorsIndependent ==
    [][iters' # iters
         => /\ db' = db
            /\ \E i \in IteratorIds :
                 \A j \in IteratorIds \ {i} :
                    /\ iters'[j] = iters[j]
                    /\ Remaining(db', iters'[j]) = Remaining(db, iters[j])]_vars

\* Two iterators are held over a store of two entries: one is exhausted, the
\* other still has both entries to visit.
C33_Witness ==
    /\ Len(db) = 2
    /\ iters[1] # <<>> /\ iters[2] # <<>>
    /\ iters[1][1].prefix = <<>>
    /\ IteratorAtEnd(db, iters[1][1])
    /\ Len(Remaining(db, iters[2])) = 2

\* ------------------------------------------ deleteAll beside another thread
\* Another thread calls put while deleteAll is between its scan and its
\* write: the wrapper takes no lock, and the engine serves both.
PutDuringDeleteAll(k, v) ==
    /\ pc = "write"
    /\ k # <<>>
    /\ k \in KeysOf(db) \/ Len(db) < MaxEntries
    /\ db' = put(db, k, v).db
    /\ UNCHANGED <<pc, batch, last, otherThanStore>>

NextConcurrent ==
    \/ \E k \in Keys, v \in Values : Put(k, v)
    \/ \E k \in Keys : Delete(k)
    \/ DeleteAllScan
    \/ DeleteAllWrite
    \/ \E k \in Keys, v \in Values : PutDuringDeleteAll(k, v)

SpecConcurrent == Init /\ [][NextConcurrent]_vars

BatchKeys == {batch[i] : i \in 1..Len(batch)}

\* C35: deleteAll removes exactly the keys of its scan.  Its batch holds the
\* keys the store had when the scan ran, a put of another thread does not
\* change the batch, and the write takes from the store the entries of the
\* keys in the batch and no other: a key put in between that the scan did
\* not see is in the store when deleteAll returns.
C35_DeleteAllRemovesScannedKeys ==
    /\ [](pc = "write" => BatchKeys = KeysOf(last.pre))
    /\ []((pc = "idle" /\ last.op = "deleteAll" /\ last.thrown = "none")
            => KeysOf(db) \cap KeysOf(last.pre) = {})
    /\ [][/\ (pc = "write" /\ pc' = "write") => batch' = batch
          /\ (pc = "write" /\ pc' = "idle")
                => db' = SelectSeq(db, LAMBDA e : e.key \notin BatchKeys)]_vars

\* deleteAll has returned from a store that held an entry when it scanned,
\* and the store is not empty: it holds a key put in between.
C35_Witness ==
    /\ pc = "idle"
    /\ last.op = "deleteAll"
    /\ last.thrown = "none" /\ last.ret
    /\ last.pre # <<>>
    /\ db # <<>>
    /\ KeysOf(db) \cap KeysOf(last.pre) = {}

\* ------------------------------------------------ the C interface of dbsync
\* What everything but dbsync is.
otherThanDbsync ==
    <<storeVars, openVars, factoryVars, downloaderVars, facadeVars, resolved,
      iterVars, ctiVars>>

\* What a call of DBSyncImplementation does: it returns (initialize with a
\* handle), or it throws a json exception, a dbsync_error, both with their
\* id, or something else.
ImplOutcomes ==
    {[kind |-> "ok", id |-> 0, handle |-> h] : h \in Handles}
        \cup {[kind |-> "json", id |-> i, handle |-> nullptr] : i \in {101, 302}}
        \cup {[kind |-> "dbsync_error", id |-> i, handle |-> nullptr] : i \in {1, 4}}
        \cup {[kind |-> "other", id |-> 0, handle |-> nullptr]}

\* add_log_function(handle, log_function)
add_log_function(fns, handle, log_function) ==
    IF handle # nullptr /\ log_function
    THEN [fns EXCEPT ![handle] = TRUE]
    ELSE fns

\* get_log_function(handle): the registered function, or nullptr.
get_log_function(fns, handle) ==
    IF handle \in DOMAIN fns THEN fns[handle] ELSE FALSE

\* log_message(handle, msg): what the handle's log function is called with,
\* "" if it is not called.
log_message(fns, handle, msg) ==
    IF msg # "" /\ get_log_function(fns, handle) THEN msg ELSE ""

\* try { ... } catch (json) catch (dbsync_error) catch (...) of the entry
\* points that return int: the value returned and the message.
Catch(outcome) ==
    CASE outcome.kind = "ok" -> [ret |-> 0, msg |-> "", escaped |-> FALSE]
      [] outcome.kind = "json" ->
            [ret |-> outcome.id, msg |-> "json error", escaped |-> FALSE]
      [] outcome.kind = "dbsync_error" ->
            [ret |-> outcome.id, msg |-> "DB error", escaped |-> FALSE]
      [] OTHER ->
            [ret |-> -1, msg |-> "Unrecognized error.", escaped |-> FALSE]

\* An entry point whose ret_val starts at 0.
EntryPoint_RetValZero(fns, handle, args, outcome, invalid) ==
    IF handle = nullptr \/ FALSE \in {args[i] : i \in 1..Len(args)}
    THEN [ret |-> 0, implCalled |-> FALSE, escaped |-> FALSE,
          written |-> FALSE, logged |-> log_message(fns, handle, invalid)]
    ELSE LET c == Catch(outcome)
         IN  [ret |-> IF outcome.kind = "other" THEN 0 ELSE c.ret,
              implCalled |-> TRUE, escaped |-> c.escaped,
              written |-> outcome.kind = "ok",
              logged |-> log_message(fns, handle, c.msg)]

\* The body the three entry points share: the check of the handle and of
\* the pointers, the call of the implementation inside try, log_message.
EntryPoint(fns, handle, args, outcome, invalid) ==
    IF handle = nullptr \/ FALSE \in {args[i] : i \in 1..Len(args)}
    THEN [ret |-> -1, implCalled |-> FALSE, escaped |-> FALSE,
          written |-> FALSE, logged |-> log_message(fns, handle, invalid)]
    ELSE LET c == Catch(outcome)
         IN  [ret |-> c.ret, implCalled |-> TRUE, escaped |-> c.escaped,
              written |-> outcome.kind = "ok",
              logged |-> log_message(fns, handle, c.msg)]

\* dbsync_insert_data(handle, json_raw)
dbsync_insert_data(fns, handle, json_raw, outcome) ==
    [EntryPoint(fns, handle, <<json_raw>>, outcome, "Invalid handle or json.")
        EXCEPT !.written = FALSE]

\* dbsync_update_with_snapshot(handle, json_snapshot, json_return_modifications):
\* *json_return_modifications is written when the implementation returned.
dbsync_update_with_snapshot(fns, handle, json_snapshot, json_return_modifications, outcome) ==
    EntryPoint(fns, handle, <<json_snapshot, json_return_modifications>>,
               outcome, "Invalid input parameter.")

\* dbsync_update_with_snapshot_cb(handle, json_snapshot, callback)
dbsync_update_with_snapshot_cb(fns, handle, json_snapshot, callback, outcome) ==
    [EntryPoint(fns, handle, <<json_snapshot, callback>>, outcome,
                "Invalid input parameters.")
        EXCEPT !.written = FALSE]

\* dbsync_initialize(host_type, db_type, path, sql_statement, log_function)
dbsync_initialize(fns, path, sql_statement, log_function, outcome) ==
    IF ~path \/ ~sql_statement
    THEN [retHandle |-> nullptr, fns |-> fns, implCalled |-> FALSE,
          escaped |-> FALSE,
          logged |-> IF log_function THEN "Invalid path or sql_statement."
                     ELSE ""]
    ELSE LET c == Catch(outcome)
         IN  [retHandle |-> outcome.handle,
              fns |-> IF outcome.kind = "ok"
                      THEN add_log_function(fns, outcome.handle, log_function)
                      ELSE fns,
              implCalled |-> TRUE, escaped |-> c.escaped,
              logged |-> IF log_function THEN c.msg ELSE ""]

\* The record of a call of one of the entry points that return int.
ApiCall(op, handle, args, outcome, r) ==
    [op |-> op, handle |-> handle, args |-> args, log_function |-> FALSE,
     outcome |-> outcome, implCalled |-> r.implCalled, ret |-> r.ret,
     retHandle |-> nullptr, logged |-> r.logged, written |-> r.written,
     escaped |-> r.escaped, pre |-> gs_logFunctions]

Initialize(path, sql_statement, log_function, outcome) ==
    /\ LET r == dbsync_initialize(gs_logFunctions, path, sql_statement,
                                  log_function, outcome)
       IN  /\ gs_logFunctions' = r.fns
           /\ api' = [op |-> "dbsync_initialize", handle |-> nullptr,
                      args |-> <<path, sql_statement>>,
                      log_function |-> log_function, outcome |-> outcome,
                      implCalled |-> r.implCalled, ret |-> 0,
                      retHandle |-> r.retHandle, logged |-> r.logged,
                      written |-> FALSE, escaped |-> r.escaped,
                      pre |-> gs_logFunctions]
    /\ UNCHANGED otherThanDbsync

InsertData(handle, json_raw, outcome) ==
    /\ api' = ApiCall("dbsync_insert_data", handle, <<json_raw>>, outcome,
                      dbsync_insert_data(gs_logFunctions, handle, json_raw,
                                         outcome))
    /\ UNCHANGED <<gs_logFunctions, otherThanDbsync>>

UpdateWithSnapshot(handle, json_snapshot, json_return_modifications, outcome) ==
    /\ api' = ApiCall("dbsync_update_with_snapshot", handle,
                      <<json_snapshot, json_return_modifications>>, outcome,
                      dbsync_update_with_snapshot(gs_logFunctions, handle,
                                                  json_snapshot,
                                                  json_return_modifications,
                                                  outcome))
    /\ UNCHANGED <<gs_logFunctions, otherThanDbsync>>

UpdateWithSnapshotCb(handle, json_snapshot, callback, outcome) ==
    /\ api' = ApiCall("dbsync_update_with_snapshot_cb", handle,
                      <<json_snapshot, callback>>, outcome,
                      dbsync_update_with_snapshot_cb(gs_logFunctions, handle,
                                                     json_snapshot, callback,
                                                     outcome))
    /\ UNCHANGED <<gs_logFunctions, otherThanDbsync>>

NextDbsync ==
    \/ \E path \in BOOLEAN, sql_statement \in BOOLEAN, log_function \in BOOLEAN,
          outcome \in ImplOutcomes :
            Initialize(path, sql_statement, log_function, outcome)
    \/ \E handle \in Handles \cup {nullptr}, json_raw \in BOOLEAN,
          outcome \in ImplOutcomes :
            InsertData(handle, json_raw, outcome)
    \/ \E handle \in Handles \cup {nullptr}, json_snapshot \in BOOLEAN,
          json_return_modifications \in BOOLEAN, outcome \in ImplOutcomes :
            UpdateWithSnapshot(handle, json_snapshot,
                               json_return_modifications, outcome)
    \/ \E handle \in Handles \cup {nullptr}, json_snapshot \in BOOLEAN,
          callback \in BOOLEAN, outcome \in ImplOutcomes :
            UpdateWithSnapshotCb(handle, json_snapshot, callback, outcome)

SpecDbsync == Init /\ [][NextDbsync]_vars

IntEntryPoints ==
    {"dbsync_insert_data", "dbsync_update_with_snapshot",
     "dbsync_update_with_snapshot_cb"}

\* C38: dbsync_insert_data, dbsync_update_with_snapshot and
\* dbsync_update_with_snapshot_cb return 0 exactly when the implementation
\* was called and returned; with a null handle or a null argument they
\* return -1 and the implementation is not called; no exception leaves
\* them.  dbsync_initialize returns nullptr and leaves the registered log
\* functions as they were when path or sql_statement is null or the
\* implementation throws.
C38_EntryPoints ==
    /\ api.op \in IntEntryPoints =>
          /\ ~api.escaped
          /\ api.ret = 0 <=> (api.implCalled /\ api.outcome.kind = "ok")
          /\ (api.handle = nullptr \/ FALSE \in {api.args[i] : i \in 1..Len(api.args)})
                => (api.ret = -1 /\ ~api.implCalled)
    /\ api.op = "dbsync_initialize" =>
          /\ ~api.escaped
          /\ (\/ FALSE \in {api.args[i] : i \in 1..Len(api.args)}
              \/ api.outcome.kind # "ok")
                => /\ api.retHandle = nullptr
                   /\ gs_logFunctions = api.pre

\* dbsync_update_with_snapshot has been called with a handle that has a log
\* function and the implementation threw something that is neither a json
\* exception nor a dbsync_error: -1 is returned and the error is logged.
C38_Witness ==
    /\ api.op = "dbsync_update_with_snapshot"
    /\ api.handle # nullptr
    /\ api.implCalled
    /\ api.outcome.kind = "other"
    /\ api.ret = -1
    /\ api.logged = "Unrecognized error."

\* ------------------------------------------- the registry and the stores
\* The facade with providers configured with any databasePath: providers are
\* added and scheduled, their runs go on, and the facade is stopped.
NextRegistry ==
    \/ \E name \in Names, valid \in BOOLEAN, databasePath \in StorePaths :
          AddProvider(name, valid, databasePath)
    \/ \E name \in Names, interval \in Intervals :
          StartScheduling(name, interval)
    \/ StopBegin
    \/ StopReturn
    \/ \E name \in Names : Tick(name)
    \/ \E name \in Names : TimerFire(name)
    \/ \E name \in Names, ok \in BOOLEAN : RunStage(name, ok)

SpecRegistry == Init /\ [][NextRegistry]_vars

otherThanCti ==
    <<storeVars, openVars, factoryVars, downloaderVars, facadeVars, resolved,
      iterVars, dbsyncVars>>

Min(a, b) == IF a < b THEN a ELSE b

\* The records of the feed are numbered from 1; the offset is the number of
\* the last record of the last page whose processing succeeded.
PageAfter(offset, feed) == (offset + 1) .. Min(offset + PageSize, feed)

\* A fetch that writes the advanced offset as soon as the page has arrived.
fetchPage_AdvancesOffset(c) ==
    LET page == PageAfter(c.offset, c.feed)
    IN  [c EXCEPT !.page = page, !.lastPage = page,
                  !.fetched = @ \cup page,
                  !.offset = IF page = {} THEN @ ELSE c.offset + Cardinality(page),
                  !.pc = "fetched", !.op = "fetch"]

\* The downloader fetches the records newer than the stored offset, one
\* page of them.
fetchPage(c) ==
    LET page == PageAfter(c.offset, c.feed)
    IN  [c EXCEPT !.page = page, !.lastPage = page,
                  !.fetched = @ \cup page,
                  !.pc = "fetched", !.op = "fetch"]

\* The page is handed to the later stages, which process its records.
deliverPage(c) ==
    [c EXCEPT !.delivered = @ \cup c.page, !.pc = "delivered",
              !.op = "deliver"]

\* On success the offset advances past the page and is persisted.
persistOffset(c) ==
    [c EXCEPT !.offset = IF c.page = {} THEN @ ELSE @ + Cardinality(c.page),
              !.page = NoPage, !.pc = "idle", !.op = "persist"]

\* The run fails: what it fetched is dropped, the stored offset stays.
failRun(c, op) == [c EXCEPT !.page = NoPage, !.pc = "idle", !.op = op]

\* The source publishes a record.
CtiPublish ==
    /\ cti.feed < FeedSize
    /\ cti' = [cti EXCEPT !.feed = @ + 1, !.op = "publish"]
    /\ UNCHANGED otherThanCti

\* An invocation begins: the page is fetched, or the transport fails.
CtiFetch(ok) ==
    /\ cti.pc = "idle"
    /\ cti' = IF ok THEN fetchPage(cti) ELSE failRun(cti, "fetch failed")
    /\ UNCHANGED otherThanCti

\* The later stages process the page, or one of them fails.
CtiDeliver(ok) ==
    /\ cti.pc = "fetched"
    /\ cti' = IF ok THEN deliverPage(cti) ELSE failRun(cti, "deliver failed")
    /\ UNCHANGED otherThanCti

CtiPersist ==
    /\ cti.pc = "delivered"
    /\ cti' = persistOffset(cti)
    /\ UNCHANGED otherThanCti

\* The process crashes between the fetch and the write of the offset, and
\* is started again: what was in memory is gone, the store is as it was.
CtiCrash ==
    /\ cti.pc \in {"fetched", "delivered"}
    /\ cti.crashes < MaxCrashes
    /\ cti' = [cti EXCEPT !.page = NoPage, !.pc = "idle",
                          !.crashes = @ + 1, !.op = "crash"]
    /\ UNCHANGED otherThanCti

NextCti ==
    \/ CtiPublish
    \/ \E ok \in BOOLEAN : CtiFetch(ok)
    \/ \E ok \in BOOLEAN : CtiDeliver(ok)
    \/ CtiPersist
    \/ CtiCrash

SpecCti == Init /\ [][NextCti]_vars

\* C32: whatever the crashes between the fetch of a page and the write of
\* the offset, every record at or before the stored offset has been
\* processed (none is lost), the offset never passes what was fetched and
\* never goes back, and the records a restart fetches again, those fetched
\* past the stored offset, all lie in the last page fetched.
C32_AtLeastOnce ==
    /\ [](/\ 1..cti.offset \subseteq cti.delivered
          /\ cti.delivered \subseteq cti.fetched
          /\ {r \in cti.fetched : r > cti.offset} \subseteq cti.lastPage
          /\ Cardinality({r \in cti.fetched : r > cti.offset}) <= PageSize)
    /\ [][cti'.offset >= cti.offset]_vars

\* After a crash that followed the processing of a full page, the page has
\* been fetched again: its records are processed and the offset is still 0.
C32_Witness ==
    /\ cti.crashes > 0
    /\ cti.op = "fetch"
    /\ cti.offset = 0
    /\ cti.page = 1..PageSize
    /\ cti.page \subseteq cti.delivered

====
